---- MODULE Spec2Model ----
(***************************************************************************)
(* Model of the guestbook server (src/main.go): the text and voice        *)
(* submission handlers, the flat feeds, the GraphQL surface, the access    *)
(* gate and the two Postgres tables they read and write.                   *)
(*                                                                         *)
(* Strings are run-length encoded: a string is a sequence of runs          *)
(* [c |-> character, n |-> count], adjacent runs having different          *)
(* characters, so that a 500-character body or a 16 KiB padded payload is  *)
(* one short value.  Characters: "sp" (a space, white space, 1 byte),      *)
(* "a" (a letter, 1 byte), "e2" (a letter encoded on 2 bytes in UTF-8).    *)
(* MIME types are sequences of one-character strings so that prefix and    *)
(* substring tests are computed as the code computes them.                 *)
(***************************************************************************)
EXTENDS Integers, Sequences, FiniteSets, TLC

\* messages, voice_messages: the two tables, in insertion order; nextMessageId,
\* nextVoiceId: their SERIAL sequences; now: the store's clock; adminUser,
\* adminPass: the configured credential; req, resp: the last request served and
\* its response; prev: the two tables as they were when that request arrived;
\* startupWarning: whether main logged its warning about unprotected admin
\* routes; inflight: the requests being served side by side, one per worker,
\* each with the place its handler has reached.
VARIABLES messages, voice_messages, nextMessageId, nextVoiceId, now,
          adminUser, adminPass, req, resp, prev, startupWarning, inflight

vars == <<messages, voice_messages, nextMessageId, nextVoiceId, now,
          adminUser, adminPass, req, resp, prev, startupWarning, inflight>>

(***************************************************************************)
(* Program constants (src/main.go:23-34) and bounds of the model.          *)
(***************************************************************************)
maxMessageLength == 500
maxBodyBytes == 16384
maxAudioDurationSeconds == 60
maxAudioBytes == 2097152
maxListLimit == 400
maxNameLength == 80
flatFeedLimit == 200
textCheckLimit == 1000
multipartAllowance == 65536

MaxMessages == 2
MaxVoice == 2
MaxClock == 1
SmallPreload == 3
ListPreload == 400
ListInserts == 1
GateCap == 1
StoreCap == 2
RoutesCap == 2
ClipPreload == 12
MaxInflight == 2
PoolSize == 1

(***************************************************************************)
(* Strings.                                                                *)
(***************************************************************************)
White == {"sp"}

Width(c) == IF c = "e2" THEN 2 ELSE 1

Rep(c, n) == IF n = 0 THEN <<>> ELSE <<[c |-> c, n |-> n]>>

Cat(s, t) ==
    IF s = <<>> THEN t
    ELSE IF t = <<>> THEN s
    ELSE IF s[Len(s)].c = t[1].c
         THEN SubSeq(s, 1, Len(s) - 1)
              \o <<[c |-> t[1].c, n |-> s[Len(s)].n + t[1].n]>>
              \o Tail(t)
         ELSE s \o t

RECURSIVE RuneLen(_)
RuneLen(s) == IF s = <<>> THEN 0 ELSE Head(s).n + RuneLen(Tail(s))

RECURSIVE ByteLen(_)
ByteLen(s) == IF s = <<>> THEN 0 ELSE Head(s).n * Width(Head(s).c) + ByteLen(Tail(s))

RECURSIVE TrimLeft(_)
TrimLeft(s) ==
    IF s = <<>> THEN s
    ELSE IF Head(s).c \in White THEN TrimLeft(Tail(s)) ELSE s

RECURSIVE TrimRight(_)
TrimRight(s) ==
    IF s = <<>> THEN s
    ELSE IF s[Len(s)].c \in White THEN TrimRight(SubSeq(s, 1, Len(s) - 1)) ELSE s

TrimSpaceLeftOnly(s) == TrimLeft(s)

TrimSpace(s) == TrimRight(TrimLeft(s))

RuneCount(s) == RuneLen(s)

(***************************************************************************)
(* Requests and responses.  A JSON or form field is optional: an absent    *)
(* field decodes to the empty string (json.Decode, r.FormValue).           *)
(***************************************************************************)
Opt(v) == [present |-> TRUE, v |-> v]

Absent == [present |-> FALSE, v |-> <<>>]

FieldValue(f) == IF f.present THEN f.v ELSE <<>>

NoAuth == [ok |-> FALSE, user |-> "", pass |-> ""]

BasicAuth(u, p) == [ok |-> TRUE, user |-> u, pass |-> p]

StorageErrorDetail == "pgx: storage error detail"

Reply(status, body) == [status |-> status, body |-> body, rows |-> <<>>, wwwAuth |-> FALSE]

ReplyRows(status, rows) == [status |-> status, body |-> "", rows |-> rows, wwwAuth |-> FALSE]

DbOutcomes == {"ok", "fail"}

(***************************************************************************)
(* The store: the two tables of ensureSchema, their CHECK constraints and  *)
(* the queries the handlers issue.                                         *)
(***************************************************************************)
MessagesCheck(text) == RuneLen(text) <= textCheckLimit

VoiceCheck(duration) == duration > 0 /\ duration <= 60

MessageRow(name, text) ==
    [id |-> nextMessageId, guest_name |-> name, text |-> text, created_at |-> now]

VoiceRow(name, note, audio, mime, duration) ==
    [id |-> nextVoiceId, guest_name |-> name, note |-> note, audio |-> audio,
     mime_type |-> mime, duration_seconds |-> duration, created_at |-> now]

Reverse(s) == [i \in 1..Len(s) |-> s[Len(s) + 1 - i]]

SetMax(S) == CHOOSE m \in S : \A x \in S : x <= m

SetMin(S) == CHOOSE m \in S : \A x \in S : m <= x

TieOrders == {"heap", "reverse"}

RECURSIVE Buckets(_, _, _, _)
Buckets(table, stamps, tie, newestFirst) ==
    IF stamps = {} THEN <<>>
    ELSE LET t == IF newestFirst THEN SetMax(stamps) ELSE SetMin(stamps)
             Same(row) == row.created_at = t
             b == SelectSeq(table, Same)
         IN  (IF tie = "heap" THEN b ELSE Reverse(b))
             \o Buckets(table, stamps \ {t}, tie, newestFirst)

Stamps(table) == {table[i].created_at : i \in DOMAIN table}

OrderByCreatedAtAsc(table, tie) == Buckets(table, Stamps(table), tie, FALSE)

\* ORDER BY created_at DESC; rows with equal created_at come in an order SQL
\* leaves open, chosen by tie.
OrderByCreatedAtDesc(table, tie) == Buckets(table, Stamps(table), tie, TRUE)

Limit(rows, n) == SubSeq(rows, 1, IF n < Len(rows) THEN n ELSE Len(rows))

SelectMessages(limit, tie) == Limit(OrderByCreatedAtDesc(messages, tie), limit)

VoiceMetadata(row) ==
    [id |-> row.id, guest_name |-> row.guest_name, note |-> row.note,
     duration_seconds |-> row.duration_seconds, mime_type |-> row.mime_type,
     created_at |-> row.created_at]

SelectVoiceMessages(limit, tie) ==
    LET rows == Limit(OrderByCreatedAtDesc(voice_messages, tie), limit)
    IN  [i \in 1..Len(rows) |-> VoiceMetadata(rows[i])]

store == <<messages, voice_messages, nextMessageId, nextVoiceId>>

config == <<adminUser, adminPass>>

Snapshot == [messages |-> messages, voice_messages |-> voice_messages]

\* A request arrives: it becomes the last request served; the clock and the
\* configuration are not the handlers' to change.
Arrive(r) ==
    req' = r /\ prev' = Snapshot /\ UNCHANGED <<now, config, startupWarning, inflight>>

(***************************************************************************)
(* POST /message (handleMessage).                                          *)
(***************************************************************************)
\* The size of the request body the client sends for a payload:
\* {"name":"...","text":"..."} is 21 bytes of framing plus the two strings.
BodyBytes(r) == 21 + ByteLen(FieldValue(r.name)) + ByteLen(FieldValue(r.text))

\* json.Decode / r.ParseForm over http.MaxBytesReader(maxBodyBytes).
Decodes(r) == r.wellFormed /\ BodyBytes(r) <= maxBodyBytes

TextVerdictNoEmptyCheck(name, text) ==
    IF name = <<>> THEN "name is required"
    ELSE IF RuneCount(name) > maxNameLength THEN "name is too long"
    ELSE IF RuneCount(text) > maxMessageLength THEN "message too long"
    ELSE "ok"

TextVerdict(name, text) ==
    IF name = <<>> THEN "name is required"
    ELSE IF RuneCount(name) > maxNameLength THEN "name is too long"
    ELSE IF text = <<>> THEN "message cannot be empty"
    ELSE IF RuneCount(text) > maxMessageLength THEN "message too long"
    ELSE "ok"

HandleMessageGated(r, cap) ==
    /\ Len(messages) < cap
    /\ Arrive(r)
    /\ UNCHANGED <<voice_messages, nextVoiceId>>
    /\ IF adminUser # "" /\ adminPass # ""
       THEN resp' = [status |-> 401, body |-> "unauthorized", rows |-> <<>>, wwwAuth |-> TRUE]
            /\ UNCHANGED <<messages, nextMessageId>>
       ELSE IF r.method = "OPTIONS"
       THEN resp' = Reply(204, "") /\ UNCHANGED <<messages, nextMessageId>>
       ELSE IF r.method # "POST"
       THEN resp' = Reply(404, "404 page not found") /\ UNCHANGED <<messages, nextMessageId>>
       ELSE IF ~Decodes(r)
       THEN resp' = Reply(400, "invalid message payload")
            /\ UNCHANGED <<messages, nextMessageId>>
       ELSE LET name == TrimSpace(FieldValue(r.name))
                text == TrimSpace(FieldValue(r.text))
                verdict == TextVerdict(name, text)
            IN  IF verdict # "ok"
                THEN resp' = Reply(400, verdict) /\ UNCHANGED <<messages, nextMessageId>>
                ELSE \E db \in DbOutcomes :
                        IF db = "ok" /\ MessagesCheck(text)
                        THEN /\ messages' = Append(messages, MessageRow(name, text))
                             /\ nextMessageId' = nextMessageId + 1
                             /\ resp' = Reply(201, "ok")
                        ELSE /\ resp' = Reply(500, "failed to store message")
                             /\ UNCHANGED <<messages, nextMessageId>>

HandleMessage(r, cap) ==
    /\ Len(messages) < cap
    /\ Arrive(r)
    /\ UNCHANGED <<voice_messages, nextVoiceId>>
    /\ IF r.method = "OPTIONS"
       THEN resp' = Reply(204, "") /\ UNCHANGED <<messages, nextMessageId>>
       ELSE IF r.method # "POST"
       THEN resp' = Reply(404, "404 page not found") /\ UNCHANGED <<messages, nextMessageId>>
       ELSE IF ~Decodes(r)
       THEN resp' = Reply(400, "invalid message payload")
            /\ UNCHANGED <<messages, nextMessageId>>
       ELSE LET name == TrimSpace(FieldValue(r.name))
                text == TrimSpace(FieldValue(r.text))
                verdict == TextVerdict(name, text)
            IN  IF verdict # "ok"
                THEN resp' = Reply(400, verdict) /\ UNCHANGED <<messages, nextMessageId>>
                ELSE \E db \in DbOutcomes :
                        IF db = "ok" /\ MessagesCheck(text)
                        THEN /\ messages' = Append(messages, MessageRow(name, text))
                             /\ nextMessageId' = nextMessageId + 1
                             /\ resp' = Reply(201, "ok")
                        ELSE /\ resp' = Reply(500, "failed to store message")
                             /\ UNCHANGED <<messages, nextMessageId>>

(***************************************************************************)
(* The access gate (checkAdminAuth, requireAdminAuth).                     *)
(***************************************************************************)
CheckAdminAuthUserOnly(r) ==
    \/ adminUser = "" \/ adminPass = ""
    \/ (r.auth.ok /\ r.auth.user = adminUser)

CheckAdminAuthBothEmpty(r) ==
    \/ (adminUser = "" /\ adminPass = "")
    \/ (r.auth.ok /\ r.auth.user = adminUser /\ r.auth.pass = adminPass)

CheckAdminAuth(r) ==
    \/ adminUser = "" \/ adminPass = ""
    \/ (r.auth.ok /\ r.auth.user = adminUser /\ r.auth.pass = adminPass)

Unauthorized ==
    [status |-> 401, body |-> "unauthorized", rows |-> <<>>, wwwAuth |-> TRUE]

(***************************************************************************)
(* GET /admin and GET /voice-messages: the flat feeds, registered behind   *)
(* requireAdminAuth.                                                       *)
(***************************************************************************)
HandleAdmin(r) ==
    /\ Arrive(r)
    /\ UNCHANGED store
    /\ IF ~CheckAdminAuth(r) THEN resp' = Unauthorized
       ELSE IF r.method = "OPTIONS" THEN resp' = Reply(204, "")
       ELSE IF r.method # "GET" THEN resp' = Reply(404, "404 page not found")
       ELSE \E db \in DbOutcomes, tie \in TieOrders :
               IF db = "ok"
               THEN resp' = ReplyRows(200, SelectMessages(flatFeedLimit, tie))
               ELSE resp' = Reply(500, "failed to fetch messages")

HandleVoiceMessages(r) ==
    /\ Arrive(r)
    /\ UNCHANGED store
    /\ IF ~CheckAdminAuth(r) THEN resp' = Unauthorized
       ELSE IF r.method = "OPTIONS" THEN resp' = Reply(204, "")
       ELSE IF r.method # "GET" THEN resp' = Reply(404, "404 page not found")
       ELSE \E db \in DbOutcomes, tie \in TieOrders :
               IF db = "ok"
               THEN resp' = ReplyRows(200, SelectVoiceMessages(flatFeedLimit, tie))
               ELSE resp' = Reply(500, "failed to fetch voice messages")

(***************************************************************************)
(* POST /graphql (handleGraphQL and the resolvers of buildGraphQLSchema).  *)
(***************************************************************************)
VoiceMessagesPrefix ==
    <<"/", "v", "o", "i", "c", "e", "-", "m", "e", "s", "s", "a", "g", "e", "s", "/">>

AudioSuffix == <<"/", "a", "u", "d", "i", "o">>

DigitChar == <<"0", "1", "2", "3", "4", "5", "6", "7", "8", "9">>

ItoaLeastDigit(n) == <<DigitChar[(n % 10) + 1]>>

RECURSIVE ItoaMagnitude(_)
ItoaMagnitude(n) ==
    IF n < 10 THEN <<DigitChar[n + 1]>>
    ELSE ItoaMagnitude(n \div 10) \o <<DigitChar[(n % 10) + 1]>>

\* strconv.Itoa: the decimal numeral, with a minus sign for a negative number.
Itoa(n) == IF n < 0 THEN <<"-">> \o ItoaMagnitude(-n) ELSE ItoaMagnitude(n)

\* The audioUrl field of the VoiceMessage type, resolved from the row's id.
AudioUrl(vm) == VoiceMessagesPrefix \o Itoa(vm.id) \o AudioSuffix

\* The voiceMessages list as the typed surface gives it: the rows and, for
\* each of them, its audioUrl.
ReplyVoiceNotes(status, rows) ==
    [status |-> status, body |-> "", rows |-> rows, wwwAuth |-> FALSE,
     audioUrl |-> [i \in 1..Len(rows) |-> AudioUrl(rows[i])]]

NoLimit == [kind |-> "absent", v |-> 0]

IntLimit(l) == [kind |-> "int", v |-> l]

EffectiveLimitNoCeiling(arg) ==
    IF arg.kind = "int" /\ arg.v > 0 THEN arg.v ELSE maxListLimit

EffectiveLimit(arg) ==
    IF arg.kind = "int" /\ arg.v > 0 /\ arg.v <= maxListLimit THEN arg.v ELSE maxListLimit

SubmitMessageVerdictNoLength(name, text) ==
    IF name = <<>> THEN "name is required"
    ELSE IF RuneCount(name) > maxNameLength THEN "name is too long"
    ELSE IF text = <<>> THEN "message cannot be empty"
    ELSE "ok"

SubmitMessageVerdictTextFirst(name, text) ==
    IF text = <<>> THEN "message cannot be empty"
    ELSE IF RuneCount(text) > maxMessageLength THEN "message too long"
    ELSE IF name = <<>> THEN "name is required"
    ELSE IF RuneCount(name) > maxNameLength THEN "name is too long"
    ELSE "ok"

SubmitMessageVerdict(name, text) ==
    IF name = <<>> THEN "name is required"
    ELSE IF RuneCount(name) > maxNameLength THEN "name is too long"
    ELSE IF text = <<>> THEN "message cannot be empty"
    ELSE IF RuneCount(text) > maxMessageLength THEN "message too long"
    ELSE "ok"

\* The document passes graphql-go's parsing and validation: the operation is
\* known, limit is an Int when given, name and text (String!) are both given.
ValidDocument(q) ==
    CASE q.op = "messages" -> q.limit.kind \in {"absent", "int"}
      [] q.op = "voiceMessages" -> q.limit.kind \in {"absent", "int"}
      [] q.op = "submitMessage" -> q.name.present /\ q.text.present
      [] OTHER -> FALSE

ResolveList(q) ==
    \E db \in DbOutcomes, tie \in TieOrders :
        IF db # "ok" THEN resp' = Reply(400, StorageErrorDetail)
        ELSE IF q.op = "messages"
        THEN resp' = ReplyRows(200, SelectMessages(EffectiveLimit(q.limit), tie))
        ELSE resp' = ReplyVoiceNotes(200, SelectVoiceMessages(EffectiveLimit(q.limit), tie))

ResolveSubmitMessageStoreFirst(q) ==
    LET name == TrimSpace(q.name.v)
        text == TrimSpace(q.text.v)
        verdict == SubmitMessageVerdict(name, text)
    IN  \E db \in DbOutcomes :
            IF db = "ok" /\ MessagesCheck(text)
            THEN /\ messages' = Append(messages, MessageRow(name, text))
                 /\ nextMessageId' = nextMessageId + 1
                 /\ resp' = IF verdict # "ok" THEN Reply(400, verdict) ELSE Reply(200, "true")
            ELSE /\ resp' = Reply(400, StorageErrorDetail)
                 /\ UNCHANGED <<messages, nextMessageId>>

ResolveSubmitMessage(q) ==
    LET name == TrimSpace(q.name.v)
        text == TrimSpace(q.text.v)
        verdict == SubmitMessageVerdict(name, text)
    IN  IF verdict # "ok"
        THEN resp' = Reply(400, verdict) /\ UNCHANGED <<messages, nextMessageId>>
        ELSE \E db \in DbOutcomes :
                IF db = "ok" /\ MessagesCheck(text)
                THEN /\ messages' = Append(messages, MessageRow(name, text))
                     /\ nextMessageId' = nextMessageId + 1
                     /\ resp' = Reply(200, "true")
                ELSE /\ resp' = Reply(400, StorageErrorDetail)
                     /\ UNCHANGED <<messages, nextMessageId>>

HandleGraphQL(r, cap) ==
    /\ r.query.op = "submitMessage" => Len(messages) < cap
    /\ Arrive(r)
    /\ UNCHANGED <<voice_messages, nextVoiceId>>
    /\ IF r.method = "OPTIONS"
       THEN resp' = Reply(204, "") /\ UNCHANGED <<messages, nextMessageId>>
       ELSE IF r.method # "POST"
       THEN resp' = Reply(404, "404 page not found") /\ UNCHANGED <<messages, nextMessageId>>
       ELSE IF ~CheckAdminAuth(r)
       THEN resp' = Unauthorized /\ UNCHANGED <<messages, nextMessageId>>
       ELSE IF ~r.wellFormed
       THEN resp' = Reply(400, "invalid graphql request")
            /\ UNCHANGED <<messages, nextMessageId>>
       ELSE IF r.query.op = "blank"
       THEN resp' = Reply(400, "query required") /\ UNCHANGED <<messages, nextMessageId>>
       ELSE IF ~ValidDocument(r.query)
       THEN resp' = Reply(400, "graphql: invalid document")
            /\ UNCHANGED <<messages, nextMessageId>>
       ELSE IF r.query.op = "submitMessage"
       THEN ResolveSubmitMessage(r.query)
       ELSE ResolveList(r.query) /\ UNCHANGED <<messages, nextMessageId>>

(***************************************************************************)
(* POST /voice-message (handleVoiceMessageUpload).                         *)
(***************************************************************************)
AudioPrefix == <<"a", "u", "d", "i", "o", "/">>

WebmToken == <<"w", "e", "b", "m">>

AudioWebm == <<"a", "u", "d", "i", "o", "/", "w", "e", "b", "m">>

AudioOgg == <<"a", "u", "d", "i", "o", "/", "o", "g", "g">>

AudioWave == <<"a", "u", "d", "i", "o", "/", "w", "a", "v", "e">>

VideoWebm == <<"v", "i", "d", "e", "o", "/", "w", "e", "b", "m">>

ApplicationOgg == <<"a", "p", "p", "l", "i", "c", "a", "t", "i", "o", "n", "/", "o", "g", "g">>

OctetStream == <<"a", "p", "p", "l", "i", "c", "a", "t", "i", "o", "n", "/", "o", "c", "t", "e", "t", "-", "s", "t", "r", "e", "a", "m">>

TextPlain == <<"t", "e", "x", "t", "/", "p", "l", "a", "i", "n">>

HasPrefix(s, p) == Len(s) >= Len(p) /\ SubSeq(s, 1, Len(p)) = p

Contains(s, t) == \E i \in 1..(Len(s) - Len(t) + 1) : SubSeq(s, i, i + Len(t) - 1) = t

\* http.DetectContentType on the first bytes of the buffer, by the signature
\* they carry; it never returns the empty string.
DetectContentType(audio) ==
    CASE audio.magic = "webm" -> VideoWebm
      [] audio.magic = "wave" -> AudioWave
      [] audio.magic = "ogg" -> ApplicationOgg
      [] OTHER -> OctetStream

ResolveMimeTypeDeclaredOnly(declared, audio) ==
    IF declared = <<>> \/ declared = OctetStream THEN AudioWebm ELSE declared

ResolveMimeType(declared, audio) ==
    LET sniffed == IF declared = <<>> THEN DetectContentType(audio) ELSE declared
    IN  IF sniffed = <<>> \/ sniffed = OctetStream THEN AudioWebm ELSE sniffed

SupportedAudioType(mime) == HasPrefix(mime, AudioPrefix) \/ Contains(mime, WebmToken)

\* The bytes of the multipart body: the audio part, the text fields and the
\* boundaries and part headers around them.
MultipartBytes(r) ==
    (IF r.file.present THEN r.file.audio.size ELSE 0)
    + ByteLen(FieldValue(r.name)) + ByteLen(FieldValue(r.note)) + r.framing

\* r.ParseMultipartForm over http.MaxBytesReader(maxAudioBytes + 64 KiB).
ParsesMultipart(r) ==
    r.wellFormed /\ MultipartBytes(r) <= maxAudioBytes + multipartAllowance

Rational(n, d) == [kind |-> "num", num |-> n, den |-> d]

Truncate(d) ==
    IF d.num >= 0 THEN d.num \div d.den ELSE -((-d.num) \div d.den)

RoundToEven(d) ==
    LET n == IF d.num >= 0 THEN d.num ELSE -d.num
        floor == n \div d.den
        twice == 2 * (n - floor * d.den)
        magnitude == IF twice < d.den THEN floor
                     ELSE IF twice > d.den THEN floor + 1
                     ELSE IF floor % 2 = 0 THEN floor ELSE floor + 1
    IN  IF d.num >= 0 THEN magnitude ELSE -magnitude

\* math.Round: to the nearest integer, halves away from zero.
Round(d) ==
    IF d.num >= 0 THEN (2 * d.num + d.den) \div (2 * d.den)
    ELSE -((2 * (-d.num) + d.den) \div (2 * d.den))

\* int(math.Round(x)): the rounded value of a finite duration; for NaN and the
\* infinities Go leaves the conversion to the implementation, which yields the
\* least int, zero or the greatest int (here the 32-bit extremes stand for them).
DurationSecondsOf(d) ==
    IF d.kind = "num" THEN {Round(d)} ELSE {-2147483647, 0, 2147483647}

DurationInRange(ds) == ~(ds <= 0 \/ ds > maxAudioDurationSeconds)

ReadCappedOffByOne(size) == IF size < maxAudioBytes THEN size ELSE maxAudioBytes

\* io.Copy through io.LimitReader(file, maxAudioBytes+1): the bytes buffered.
ReadCapped(size) == IF size < maxAudioBytes + 1 THEN size ELSE maxAudioBytes + 1

BufferVerdictNoEmptyCheck(n) ==
    IF n > maxAudioBytes THEN "audio file too large" ELSE "ok"

BufferVerdict(n) ==
    IF n = 0 THEN "audio file is empty"
    ELSE IF n > maxAudioBytes THEN "audio file too large"
    ELSE "ok"

VoiceNameVerdictOptional(name) ==
    IF RuneCount(name) > maxNameLength THEN "name is too long" ELSE "ok"

VoiceNameVerdict(name) ==
    IF name = <<>> THEN "name is required"
    ELSE IF RuneCount(name) > maxNameLength THEN "name is too long"
    ELSE "ok"

\* The checks of the handler in the order the code makes them, for a parsed
\* form and a rounded duration ds: the reason of the first one that fails.
VoiceVerdict(r, ds) ==
    IF r.duration.kind \in {"absent", "blank"} THEN "duration is required"
    ELSE IF r.duration.kind = "bad" THEN "invalid duration"
    ELSE IF ~DurationInRange(ds) THEN "duration exceeds limit"
    ELSE IF ~r.file.present THEN "audio file is required"
    ELSE IF BufferVerdict(ReadCapped(r.file.audio.size)) # "ok"
         THEN BufferVerdict(ReadCapped(r.file.audio.size))
    ELSE IF ~SupportedAudioType(ResolveMimeType(r.file.declared, r.file.audio))
         THEN "unsupported audio type"
    ELSE VoiceNameVerdict(TrimSpace(FieldValue(r.name)))

HandleVoiceMessageUpload(r, cap) ==
    /\ Len(voice_messages) < cap
    /\ Arrive(r)
    /\ UNCHANGED <<messages, nextMessageId>>
    /\ IF r.method = "OPTIONS"
       THEN resp' = Reply(204, "") /\ UNCHANGED <<voice_messages, nextVoiceId>>
       ELSE IF r.method # "POST"
       THEN resp' = Reply(404, "404 page not found")
            /\ UNCHANGED <<voice_messages, nextVoiceId>>
       ELSE IF ~ParsesMultipart(r)
       THEN resp' = Reply(400, "invalid audio payload")
            /\ UNCHANGED <<voice_messages, nextVoiceId>>
       ELSE \E ds \in (IF r.duration.kind \in {"absent", "blank", "bad"}
                       THEN {0} ELSE DurationSecondsOf(r.duration)) :
            LET verdict == VoiceVerdict(r, ds)
                buf == [size |-> ReadCapped(r.file.audio.size),
                        magic |-> r.file.audio.magic]
                mimeType == ResolveMimeType(r.file.declared, r.file.audio)
                guestName == TrimSpace(FieldValue(r.name))
                note == TrimSpace(FieldValue(r.note))
            IN  IF verdict # "ok"
                THEN resp' = Reply(400, verdict)
                     /\ UNCHANGED <<voice_messages, nextVoiceId>>
                ELSE \E db \in DbOutcomes :
                        IF db = "ok" /\ VoiceCheck(ds)
                        THEN /\ voice_messages' =
                                  Append(voice_messages,
                                         VoiceRow(guestName, note, buf, mimeType, ds))
                             /\ nextVoiceId' = nextVoiceId + 1
                             /\ resp' = Reply(201, "ok")
                        ELSE /\ resp' = Reply(500, "failed to store voice message")
                             /\ UNCHANGED <<voice_messages, nextVoiceId>>

(***************************************************************************)
(* GET /voice-messages/{id}/audio (handleVoiceAudio), registered behind    *)
(* requireAdminAuth.  A path is a sequence of one-character strings.       *)
(***************************************************************************)
HasSuffix(s, p) == Len(s) >= Len(p) /\ SubSeq(s, Len(s) - Len(p) + 1, Len(s)) = p

TrimPrefix(s, p) == IF HasPrefix(s, p) THEN SubSeq(s, Len(p) + 1, Len(s)) ELSE s

TrimSuffix(s, p) == IF HasSuffix(s, p) THEN SubSeq(s, 1, Len(s) - Len(p)) ELSE s

\* strings.Trim(s, "/"): every leading and trailing slash removed.
RECURSIVE TrimSlashes(_)
TrimSlashes(s) ==
    IF s = <<>> THEN s
    ELSE IF Head(s) = "/" THEN TrimSlashes(Tail(s))
    ELSE IF s[Len(s)] = "/" THEN TrimSlashes(SubSeq(s, 1, Len(s) - 1))
    ELSE s

DigitValue ==
    [c \in {"0", "1", "2", "3", "4", "5", "6", "7", "8", "9"} |->
        CASE c = "0" -> 0 [] c = "1" -> 1 [] c = "2" -> 2 [] c = "3" -> 3 [] c = "4" -> 4
          [] c = "5" -> 5 [] c = "6" -> 6 [] c = "7" -> 7 [] c = "8" -> 8 [] c = "9" -> 9]

RECURSIVE DecimalValue(_)
DecimalValue(s) ==
    IF s = <<>> THEN 0 ELSE 10 * DecimalValue(SubSeq(s, 1, Len(s) - 1)) + DigitValue[s[Len(s)]]

AtoiMagnitude(s) ==
    LET signed == s # <<>> /\ s[1] \in {"+", "-"}
        digits == IF signed THEN Tail(s) ELSE s
    IN  IF digits = <<>> \/ \E i \in DOMAIN digits : digits[i] \notin DOMAIN DigitValue
        THEN [ok |-> FALSE, v |-> 0]
        ELSE [ok |-> TRUE, v |-> DecimalValue(digits)]

\* strconv.Atoi: an optional sign and at least one decimal digit, nothing else.
Atoi(s) ==
    LET signed == s # <<>> /\ s[1] \in {"+", "-"}
        digits == IF signed THEN Tail(s) ELSE s
    IN  IF digits = <<>> \/ \E i \in DOMAIN digits : digits[i] \notin DOMAIN DigitValue
        THEN [ok |-> FALSE, v |-> 0]
        ELSE [ok |-> TRUE,
              v |-> IF signed /\ s[1] = "-" THEN -DecimalValue(digits) ELSE DecimalValue(digits)]

NotFound == Reply(404, "404 page not found")

\* http.ServeContent of the whole blob under the Content-Type already set
\* (the requests of the model carry no Range or conditional header).
ReplyAudio(audio, mimeType) ==
    [status |-> 200, body |-> "", rows |-> <<>>, wwwAuth |-> FALSE,
     audio |-> audio, contentType |-> mimeType]

\* SELECT audio, mime_type FROM voice_messages WHERE id = $1.
SelectAudio(id) ==
    LET Hit(row) == row.id = id
    IN  SelectSeq(voice_messages, Hit)

\* The id the handler takes from the path: none when the prefix or the /audio
\* suffix is missing or what lies between them is not a positive integer.
RequestedId(path) ==
    IF ~HasPrefix(path, VoiceMessagesPrefix) THEN [ok |-> FALSE, v |-> 0]
    ELSE LET remainder == TrimPrefix(path, VoiceMessagesPrefix)
             idStr == TrimSlashes(TrimSuffix(remainder, AudioSuffix))
             id == Atoi(idStr)
         IN  IF ~HasSuffix(remainder, AudioSuffix) THEN [ok |-> FALSE, v |-> 0]
             ELSE IF ~id.ok \/ id.v <= 0 THEN [ok |-> FALSE, v |-> 0]
             ELSE id

HandleVoiceAudio(r) ==
    /\ Arrive(r)
    /\ UNCHANGED store
    /\ IF ~CheckAdminAuth(r) THEN resp' = Unauthorized
       ELSE IF r.method = "OPTIONS" THEN resp' = Reply(204, "")
       ELSE IF r.method # "GET" THEN resp' = NotFound
       ELSE LET id == RequestedId(r.path)
            IN  IF ~id.ok THEN resp' = NotFound
                ELSE \E db \in DbOutcomes :
                        IF db = "ok" /\ SelectAudio(id.v) # <<>>
                        THEN resp' = ReplyAudio(SelectAudio(id.v)[1].audio,
                                                SelectAudio(id.v)[1].mime_type)
                        ELSE resp' = NotFound

Tick ==
    /\ now < MaxClock
    /\ now' = now + 1
    /\ UNCHANGED <<store, config, req, resp, prev, startupWarning, inflight>>

(***************************************************************************)
(* The requests the clients send.                                          *)
(***************************************************************************)
PaddedName == Cat(Rep("sp", 1), Cat(Rep("a", 1), Rep("sp", 1)))

PaddedText ==
    Cat(Rep("sp", 1), Cat(Rep("a", 1), Cat(Rep("sp", 1), Cat(Rep("a", 1), Rep("sp", 2)))))

NameInputs ==
    {<<>>, Rep("sp", 2), PaddedName, Rep("e2", maxNameLength), Rep("a", maxNameLength + 1)}

TextInputs ==
    {<<>>, Rep("sp", 3), PaddedText,
     Cat(Rep("sp", 1), Cat(Rep("e2", maxMessageLength), Rep("sp", 1))),
     Rep("a", maxMessageLength + 1),
     Cat(Rep("sp", maxBodyBytes), Rep("a", 1))}

GoodAuth == BasicAuth("admin", "secret")

AuthInputs == {NoAuth, GoodAuth, BasicAuth("admin", "guess"), BasicAuth("guest", "secret")}

AdminConfigs == {<<"", "">>, <<"admin", "secret">>}

MessageRequest(method, wellFormed, name, text) ==
    [route |-> "/message", method |-> method, wellFormed |-> wellFormed,
     name |-> name, text |-> text]

MessageRequests ==
    {MessageRequest("POST", TRUE, Opt(n), Opt(t)) : n \in NameInputs, t \in TextInputs}
    \cup {MessageRequest("POST", TRUE, Absent, Opt(PaddedText)),
          MessageRequest("POST", TRUE, Opt(PaddedName), Absent),
          MessageRequest("POST", FALSE, Opt(PaddedName), Opt(PaddedText)),
          MessageRequest("GET", TRUE, Opt(PaddedName), Opt(PaddedText)),
          MessageRequest("OPTIONS", TRUE, Opt(PaddedName), Opt(PaddedText))}

FeedRequest(route, method, auth) == [route |-> route, method |-> method, auth |-> auth]

FeedRequests(route) ==
    {FeedRequest(route, "GET", a) : a \in AuthInputs}
    \cup {FeedRequest(route, m, GoodAuth) : m \in {"POST", "OPTIONS"}}

GraphQLRequest(method, auth, wellFormed, query) ==
    [route |-> "/graphql", method |-> method, auth |-> auth,
     wellFormed |-> wellFormed, query |-> query]

SubmitMessage(name, text) == [op |-> "submitMessage", name |-> name, text |-> text]

ListQuery(op, limit) == [op |-> op, limit |-> limit]

LimitInputs ==
    {NoLimit, [kind |-> "string", v |-> 0], IntLimit(-1), IntLimit(0), IntLimit(1),
     IntLimit(flatFeedLimit), IntLimit(maxListLimit), IntLimit(maxListLimit + 1)}

SubmitMessageRequests ==
    {GraphQLRequest("POST", GoodAuth, TRUE, SubmitMessage(Opt(n), Opt(t))) :
        n \in NameInputs, t \in TextInputs}
    \cup {GraphQLRequest("POST", GoodAuth, TRUE, SubmitMessage(Absent, Opt(PaddedText))),
          GraphQLRequest("POST", GoodAuth, TRUE, SubmitMessage(Opt(PaddedName), Absent))}
    \cup {GraphQLRequest("POST", a, TRUE, SubmitMessage(Opt(PaddedName), Opt(PaddedText))) :
            a \in AuthInputs}

ListQueryRequests(op) ==
    {GraphQLRequest("POST", GoodAuth, TRUE, ListQuery(op, l)) : l \in LimitInputs}
    \cup {GraphQLRequest("POST", a, TRUE, ListQuery(op, NoLimit)) : a \in AuthInputs}

OtherGraphQLRequests ==
    {GraphQLRequest(m, GoodAuth, TRUE, ListQuery("messages", NoLimit)) : m \in {"GET", "OPTIONS"}}
    \cup {GraphQLRequest("POST", GoodAuth, FALSE, [op |-> "blank"]),
          GraphQLRequest("POST", GoodAuth, TRUE, [op |-> "blank"]),
          GraphQLRequest("POST", GoodAuth, TRUE, [op |-> "unknown"])}

Audio(size, magic) == [size |-> size, magic |-> magic]

File(size, magic, declared) ==
    [present |-> TRUE, audio |-> Audio(size, magic), declared |-> declared]

NoFile == [present |-> FALSE, audio |-> Audio(0, "binary"), declared |-> <<>>]

VoiceBase ==
    [route |-> "/voice-message", method |-> "POST", wellFormed |-> TRUE, framing |-> 600,
     duration |-> Rational(10, 1), file |-> File(51200, "binary", <<>>),
     name |-> Opt(PaddedName), note |-> Absent]

DurationInputs ==
    {[kind |-> "absent"], [kind |-> "blank"], [kind |-> "bad"], [kind |-> "nan"],
     Rational(-1, 1), Rational(0, 1), Rational(2, 5), Rational(1, 2), Rational(1, 1),
     Rational(60, 1), Rational(302, 5), Rational(121, 2), Rational(61, 1)}

FileInputs ==
    {NoFile}
    \cup {File(n, "binary", <<>>) :
            n \in {0, 1, maxAudioBytes, maxAudioBytes + 1, maxAudioBytes + multipartAllowance}}
    \cup {File(51200, m, <<>>) : m \in {"webm", "wave", "ogg"}}
    \cup {File(51200, "binary", d) : d \in {AudioOgg, VideoWebm, OctetStream, TextPlain}}
    \cup {File(51200, "webm", AudioOgg), File(51200, "wave", OctetStream)}

VoiceRequests ==
    {[VoiceBase EXCEPT !.duration = d] : d \in DurationInputs}
    \cup {[VoiceBase EXCEPT !.file = f] : f \in FileInputs}
    \cup {[VoiceBase EXCEPT !.name = Opt(n)] : n \in NameInputs}
    \cup {[VoiceBase EXCEPT !.name = Absent],
          [VoiceBase EXCEPT !.note = Opt(PaddedText)],
          [VoiceBase EXCEPT !.note = Opt(<<>>)],
          [VoiceBase EXCEPT !.note = Opt(Rep("sp", 2))],
          [VoiceBase EXCEPT !.note = Opt(Rep("a", multipartAllowance)),
                            !.file = File(maxAudioBytes, "binary", <<>>)],
          [VoiceBase EXCEPT !.wellFormed = FALSE],
          [VoiceBase EXCEPT !.method = "GET"],
          [VoiceBase EXCEPT !.method = "OPTIONS"],
          [VoiceBase EXCEPT !.duration = Rational(0, 1), !.file = NoFile, !.name = Absent],
          [VoiceBase EXCEPT !.duration = Rational(302, 5),
                            !.file = File(maxAudioBytes, "webm", <<>>),
                            !.name = Opt(Rep("e2", maxNameLength))]}

(***************************************************************************)
(* Specifications.                                                         *)
(***************************************************************************)
NoRequest == [route |-> "none", method |-> "none"]

\* main logs the warning when either half of the credential is missing.
WarnsAtStartup(user, pass) == user = "" \/ pass = ""

\* The workers of the server: none is serving a request when it starts.
Slots == 1..MaxInflight

IdleSlot ==
    [pc |-> "idle", r |-> NoRequest, resp |-> Reply(0, ""), statements |-> 0,
     outcome |-> "none", stored |-> FALSE]

Init ==
    /\ messages = <<>>
    /\ voice_messages = <<>>
    /\ nextMessageId = 1
    /\ nextVoiceId = 1
    /\ now = 0
    /\ \E c \in AdminConfigs : adminUser = c[1] /\ adminPass = c[2]
    /\ req = NoRequest
    /\ resp = Reply(0, "")
    /\ prev = Snapshot
    /\ startupWarning = WarnsAtStartup(adminUser, adminPass)
    /\ inflight = [i \in Slots |-> IdleSlot]

PostMessage == \E r \in MessageRequests : HandleMessage(r, MaxMessages)

PostVoiceMessage == \E r \in VoiceRequests : HandleVoiceMessageUpload(r, MaxVoice)

GetAdmin == \E r \in FeedRequests("/admin") : HandleAdmin(r)

GetVoiceMessages == \E r \in FeedRequests("/voice-messages") : HandleVoiceMessages(r)

PostGraphQLSubmit == \E r \in SubmitMessageRequests : HandleGraphQL(r, MaxMessages)

PostGraphQLMessages == \E r \in ListQueryRequests("messages") : HandleGraphQL(r, MaxMessages)

PostGraphQLVoiceMessages ==
    \E r \in ListQueryRequests("voiceMessages") : HandleGraphQL(r, MaxMessages)

PostGraphQLOther == \E r \in OtherGraphQLRequests : HandleGraphQL(r, MaxMessages)

\* Text submissions through both write paths, from an empty store.
NextText ==
    \/ PostMessage
    \/ PostGraphQLSubmit
    \/ PostGraphQLOther

SpecText == Init /\ [][NextText]_vars

\* Voice submissions, from an empty store.
NextVoice == PostVoiceMessage

SpecVoice == Init /\ [][NextVoice]_vars

\* The list operations over stores that already hold rows: row i of n was
\* stored in one of three earlier periods of the clock, the oldest rows first.
PreloadStamp(i, n) == ((3 * i) \div (n + 1)) - 2

PreloadMessages(n) ==
    [i \in 1..n |-> [id |-> i, guest_name |-> TrimSpace(PaddedName),
                     text |-> TrimSpace(PaddedText), created_at |-> PreloadStamp(i, n)]]

PreloadVoice(n) ==
    [i \in 1..n |-> [id |-> i, guest_name |-> TrimSpace(PaddedName), note |-> <<>>,
                     audio |-> Audio(1, "binary"), mime_type |-> AudioWebm,
                     duration_seconds |-> 1 + (i % maxAudioDurationSeconds),
                     created_at |-> PreloadStamp(i, n)]]

PreloadSizes == {0, SmallPreload, ListPreload}

InitList ==
    /\ \E n \in PreloadSizes :
          /\ messages = PreloadMessages(n)
          /\ nextMessageId = n + 1
          /\ voice_messages = PreloadVoice(IF n = 0 THEN 0 ELSE n + ListInserts)
          /\ nextVoiceId = (IF n = 0 THEN 0 ELSE n + ListInserts) + 1
    /\ now = 0
    /\ adminUser = "admin" /\ adminPass = "secret"
    /\ req = NoRequest
    /\ resp = Reply(0, "")
    /\ prev = Snapshot
    /\ startupWarning = WarnsAtStartup(adminUser, adminPass)
    /\ inflight = [i \in Slots |-> IdleSlot]

ListCap ==
    IF Len(messages) < SmallPreload THEN ListInserts
    ELSE IF Len(messages) < ListPreload THEN SmallPreload + ListInserts
    ELSE ListPreload + ListInserts

ListSeedRequests == {MessageRequest("POST", TRUE, Opt(PaddedName), Opt(PaddedText))}

ListFeedRequests(route) == {FeedRequest(route, "GET", GoodAuth)}

ListLimitInputs ==
    {NoLimit, IntLimit(-1), IntLimit(0), IntLimit(1), IntLimit(maxListLimit),
     IntLimit(maxListLimit + 1)}

ListGraphQLRequests ==
    {GraphQLRequest("POST", GoodAuth, TRUE, ListQuery(op, l)) :
        op \in {"messages", "voiceMessages"}, l \in ListLimitInputs}

SeedMessage == \E r \in ListSeedRequests : HandleMessage(r, ListCap)

ListAdmin == \E r \in ListFeedRequests("/admin") : HandleAdmin(r)

ListVoiceMessages == \E r \in ListFeedRequests("/voice-messages") : HandleVoiceMessages(r)

ListGraphQL == \E r \in ListGraphQLRequests : HandleGraphQL(r, ListCap)

NextList ==
    \/ SeedMessage
    \/ ListAdmin
    \/ ListVoiceMessages
    \/ ListGraphQL
    \/ Tick

SpecList == InitList /\ [][NextList]_vars

\* The two read surfaces side by side: each flat feed and the typed query of
\* the same table with limit 200, over the preloaded stores.
CompareGraphQLRequests ==
    {GraphQLRequest("POST", GoodAuth, TRUE, ListQuery(op, IntLimit(flatFeedLimit))) :
        op \in {"messages", "voiceMessages"}}

CompareGraphQL == \E r \in CompareGraphQLRequests : HandleGraphQL(r, ListCap)

NextCompare ==
    \/ SeedMessage
    \/ ListAdmin
    \/ ListVoiceMessages
    \/ CompareGraphQL
    \/ Tick

SpecCompare == InitList /\ [][NextCompare]_vars

\* Audio fetches over stores filled by a few valid uploads.
AudioPath(id, tail) == VoiceMessagesPrefix \o id \o tail

AudioRequest(method, auth, path) ==
    [route |-> "/voice-messages/", method |-> method, auth |-> auth, path |-> path]

IdInputs ==
    {<<"1">>, <<"2">>, <<"3">>, <<"9", "9">>, <<"0">>, <<"-", "1">>, <<"+", "1">>,
     <<"0", "2">>, <<"a", "b">>, <<"1", "x">>, <<>>}

AudioRequests ==
    {AudioRequest("GET", GoodAuth, AudioPath(id, AudioSuffix)) : id \in IdInputs}
    \cup {AudioRequest("GET", GoodAuth, AudioPath(<<"1">>, t)) :
            t \in {<<>>, <<"/">>, <<"/", "a", "u", "d", "i", "o", "/">>, <<"/", "a", "u", "d">>}}
    \cup {AudioRequest(m, GoodAuth, AudioPath(<<"1">>, AudioSuffix)) : m \in {"POST", "OPTIONS"}}
    \cup {AudioRequest("GET", a, AudioPath(<<"1">>, AudioSuffix)) : a \in AuthInputs}

AudioUploads ==
    {[VoiceBase EXCEPT !.file = f] :
        f \in {File(51200, "binary", <<>>), File(1, "wave", <<>>),
               File(maxAudioBytes, "webm", AudioOgg)}}

UploadAudio == \E r \in AudioUploads : HandleVoiceMessageUpload(r, MaxVoice)

GetVoiceAudio == \E r \in AudioRequests : HandleVoiceAudio(r)

NextAudio ==
    \/ UploadAudio
    \/ GetVoiceAudio

SpecAudio == Init /\ [][NextAudio]_vars

\* Every route under every credential: the gated routes with each method and
\* each Authorization header, the public routes with valid and invalid
\* submissions, over stores of at most GateCap rows each.
Methods == {"GET", "POST", "OPTIONS"}

GateFeedRequests(route) == {FeedRequest(route, m, a) : m \in Methods, a \in AuthInputs}

GateAudioRequests ==
    {AudioRequest(m, a, AudioPath(id, AudioSuffix)) :
        m \in Methods, a \in AuthInputs, id \in {<<"1">>, <<"a", "b">>}}
    \cup {AudioRequest("GET", a, AudioPath(<<"1">>, <<>>)) : a \in AuthInputs}

GateQueries ==
    {ListQuery("messages", NoLimit), ListQuery("voiceMessages", IntLimit(1)),
     SubmitMessage(Opt(PaddedName), Opt(PaddedText)),
     SubmitMessage(Opt(PaddedName), Opt(Rep("sp", 3))),
     [op |-> "blank"], [op |-> "unknown"]}

GateGraphQLRequests ==
    {GraphQLRequest(m, a, TRUE, q) : m \in Methods, a \in AuthInputs, q \in GateQueries}
    \cup {GraphQLRequest("POST", a, FALSE, [op |-> "blank"]) : a \in AuthInputs}

GateMessageRequests ==
    {MessageRequest("POST", TRUE, Opt(PaddedName), Opt(PaddedText)),
     MessageRequest("POST", TRUE, Opt(PaddedName), Opt(Rep("sp", 3))),
     MessageRequest("POST", TRUE, Opt(PaddedName), Opt(Rep("a", maxMessageLength + 1))),
     MessageRequest("POST", TRUE, Opt(Rep("a", maxNameLength + 1)), Opt(PaddedText)),
     MessageRequest("POST", FALSE, Opt(PaddedName), Opt(PaddedText))}

GateVoiceRequests ==
    {VoiceBase,
     [VoiceBase EXCEPT !.duration = Rational(61, 1)],
     [VoiceBase EXCEPT !.file = NoFile],
     [VoiceBase EXCEPT !.file = File(maxAudioBytes + 1, "binary", <<>>)],
     [VoiceBase EXCEPT !.file = File(51200, "binary", TextPlain)],
     [VoiceBase EXCEPT !.name = Absent]}

GateMessage == \E r \in GateMessageRequests : HandleMessage(r, GateCap)

GateVoiceMessage == \E r \in GateVoiceRequests : HandleVoiceMessageUpload(r, GateCap)

GateAdmin == \E r \in GateFeedRequests("/admin") : HandleAdmin(r)

GateVoiceMessages == \E r \in GateFeedRequests("/voice-messages") : HandleVoiceMessages(r)

GateVoiceAudio == \E r \in GateAudioRequests : HandleVoiceAudio(r)

GateGraphQL == \E r \in GateGraphQLRequests : HandleGraphQL(r, GateCap)

NextGate ==
    \/ GateMessage
    \/ GateVoiceMessage
    \/ GateAdmin
    \/ GateVoiceMessages
    \/ GateVoiceAudio
    \/ GateGraphQL

SpecGate == Init /\ [][NextGate]_vars

\* The store on its own: INSERT statements issued straight to the two tables
\* of ensureSchema, past the handlers.  The columns are all given, so the only
\* constraints left to refuse a row are the two CHECKs; the SERIAL value is
\* drawn before a CHECK is evaluated, so a refused row leaves a gap in the ids.
\* Each table takes at most StoreCap such statements.
InsertText(guest_name, text) ==
    [route |-> "store", method |-> "INSERT", table |-> "messages",
     guest_name |-> guest_name, text |-> text]

InsertVoice(size, duration) ==
    [route |-> "store", method |-> "INSERT", table |-> "voice_messages",
     guest_name |-> Rep("a", 1), note |-> <<>>, audio |-> Audio(size, "binary"),
     mime_type |-> AudioWebm, duration_seconds |-> duration]

Inserted == Reply(0, "INSERT 0 1")

CheckViolation == Reply(0, "violates check constraint")

InsertIntoMessages(r) ==
    /\ nextMessageId <= StoreCap
    /\ Arrive(r)
    /\ UNCHANGED <<voice_messages, nextVoiceId>>
    /\ nextMessageId' = nextMessageId + 1
    /\ IF MessagesCheck(r.text)
       THEN /\ messages' = Append(messages, MessageRow(r.guest_name, r.text))
            /\ resp' = Inserted
       ELSE /\ UNCHANGED messages
            /\ resp' = CheckViolation

InsertIntoVoiceMessages(r) ==
    /\ nextVoiceId <= StoreCap
    /\ Arrive(r)
    /\ UNCHANGED <<messages, nextMessageId>>
    /\ nextVoiceId' = nextVoiceId + 1
    /\ IF VoiceCheck(r.duration_seconds)
       THEN /\ voice_messages' =
                 Append(voice_messages,
                        VoiceRow(r.guest_name, r.note, r.audio, r.mime_type,
                                 r.duration_seconds))
            /\ resp' = Inserted
       ELSE /\ UNCHANGED voice_messages
            /\ resp' = CheckViolation

TextInserts ==
    {InsertText(Rep("a", 1), Rep("a", n)) :
        n \in {maxMessageLength, maxMessageLength + 1, textCheckLimit, textCheckLimit + 1}}

VoiceInserts ==
    {InsertVoice(size, d) :
        size \in {maxAudioBytes, maxAudioBytes + 1},
        d \in {-1, 0, 1, maxAudioDurationSeconds, maxAudioDurationSeconds + 1}}

StoreText == \E r \in TextInserts : InsertIntoMessages(r)

StoreVoice == \E r \in VoiceInserts : InsertIntoVoiceMessages(r)

NextStore ==
    \/ StoreText
    \/ StoreVoice

SpecStore == Init /\ [][NextStore]_vars

\* Every route under every configuration main can start with: no credential,
\* one half of it only, or both halves; stores of at most RoutesCap rows each.
StartupConfigs == {<<"", "">>, <<"admin", "">>, <<"", "secret">>, <<"admin", "secret">>}

InitRoutes ==
    /\ messages = <<>>
    /\ voice_messages = <<>>
    /\ nextMessageId = 1
    /\ nextVoiceId = 1
    /\ now = 0
    /\ \E c \in StartupConfigs : adminUser = c[1] /\ adminPass = c[2]
    /\ req = NoRequest
    /\ resp = Reply(0, "")
    /\ prev = Snapshot
    /\ startupWarning = WarnsAtStartup(adminUser, adminPass)
    /\ inflight = [i \in Slots |-> IdleSlot]

RoutesMessage == \E r \in GateMessageRequests : HandleMessage(r, RoutesCap)

RoutesVoiceMessage == \E r \in GateVoiceRequests : HandleVoiceMessageUpload(r, RoutesCap)

RoutesAdmin == \E r \in GateFeedRequests("/admin") : HandleAdmin(r)

RoutesVoiceMessages == \E r \in GateFeedRequests("/voice-messages") : HandleVoiceMessages(r)

RoutesVoiceAudio == \E r \in GateAudioRequests : HandleVoiceAudio(r)

RoutesGraphQL == \E r \in GateGraphQLRequests : HandleGraphQL(r, RoutesCap)

NextRoutes ==
    \/ RoutesMessage
    \/ RoutesVoiceMessage
    \/ RoutesAdmin
    \/ RoutesVoiceMessages
    \/ RoutesVoiceAudio
    \/ RoutesGraphQL

SpecRoutes == InitRoutes /\ [][NextRoutes]_vars

\* The derived audio paths: stores that already hold ClipPreload voice notes
\* (or none), each with an audio blob of its own; the typed voice list is read
\* and the audioUrl of one of its entries is fetched.
PreloadClips(n) ==
    [i \in 1..n |-> [id |-> i, guest_name |-> TrimSpace(PaddedName), note |-> <<>>,
                     audio |-> Audio(i, "binary"),
                     mime_type |-> IF i % 2 = 0 THEN AudioWebm ELSE AudioOgg,
                     duration_seconds |-> 1 + (i % maxAudioDurationSeconds),
                     created_at |-> PreloadStamp(i, n)]]

InitAudioUrl ==
    /\ messages = <<>>
    /\ nextMessageId = 1
    /\ \E n \in {0, ClipPreload} : voice_messages = PreloadClips(n) /\ nextVoiceId = n + 1
    /\ now = 0
    /\ \E c \in AdminConfigs : adminUser = c[1] /\ adminPass = c[2]
    /\ req = NoRequest
    /\ resp = Reply(0, "")
    /\ prev = Snapshot
    /\ startupWarning = WarnsAtStartup(adminUser, adminPass)
    /\ inflight = [i \in Slots |-> IdleSlot]

ClipCap == IF Len(voice_messages) < ClipPreload THEN MaxVoice ELSE ClipPreload + 1

ClipListRequests ==
    {GraphQLRequest("POST", GoodAuth, TRUE, ListQuery("voiceMessages", l)) :
        l \in {NoLimit, IntLimit(1)}}

UploadClip == \E r \in AudioUploads : HandleVoiceMessageUpload(r, ClipCap)

ListClips == \E r \in ClipListRequests : HandleGraphQL(r, MaxMessages)

\* The client follows an audioUrl of the list it has just been given.
FetchAudioUrl ==
    /\ req.route = "/graphql" /\ req.query.op = "voiceMessages" /\ resp.status = 200
    /\ \E k \in DOMAIN resp.audioUrl :
          HandleVoiceAudio(AudioRequest("GET", GoodAuth, resp.audioUrl[k]))

NextAudioUrl ==
    \/ UploadClip
    \/ ListClips
    \/ FetchAudioUrl

SpecAudioUrl == InitAudioUrl /\ [][NextAudioUrl]_vars

\* Requests served side by side.  net/http runs each handler on a goroutine of
\* its own; a handler shares nothing with the others but the connection pool,
\* so its steps up to its storage call are taken at once (Receive) and it then
\* waits for a connection of the pool (Acquire), for the answer of the store
\* (Answer), or for the deadline of its context (Deadline).  Each of the
\* MaxInflight workers serves one request; the pool holds PoolSize connections.
\* A statement cut off by the deadline while the store was executing it may or
\* may not have taken effect: the cancellation races with the store.
ReachesStorage(r) ==
    CASE r.route = "/message" ->
            /\ r.method = "POST" /\ Decodes(r)
            /\ TextVerdict(TrimSpace(FieldValue(r.name)), TrimSpace(FieldValue(r.text))) = "ok"
      [] r.route = "/voice-message" ->
            /\ r.method = "POST" /\ ParsesMultipart(r) /\ r.duration.kind = "num"
            /\ VoiceVerdict(r, Round(r.duration)) = "ok"
      [] r.route \in {"/admin", "/voice-messages"} -> CheckAdminAuth(r) /\ r.method = "GET"
      [] r.route = "/voice-messages/" ->
            CheckAdminAuth(r) /\ r.method = "GET" /\ RequestedId(r.path).ok
      [] r.route = "/graphql" ->
            /\ r.method = "POST" /\ CheckAdminAuth(r) /\ r.wellFormed
            /\ r.query.op # "blank" /\ ValidDocument(r.query)
            /\ r.query.op = "submitMessage" =>
                  SubmitMessageVerdict(TrimSpace(r.query.name.v), TrimSpace(r.query.text.v)) = "ok"

\* What each handler answers when its storage call returns an error.
FailureReply(r) ==
    CASE r.route = "/message" -> Reply(500, "failed to store message")
      [] r.route = "/voice-message" -> Reply(500, "failed to store voice message")
      [] r.route = "/admin" -> Reply(500, "failed to fetch messages")
      [] r.route = "/voice-messages" -> Reply(500, "failed to fetch voice messages")
      [] r.route = "/voice-messages/" -> NotFound
      [] r.route = "/graphql" -> Reply(400, StorageErrorDetail)

\* The values of the INSERT a text submission issues.
SubmittedText(r) ==
    IF r.route = "/message"
    THEN [name |-> TrimSpace(FieldValue(r.name)), text |-> TrimSpace(FieldValue(r.text))]
    ELSE [name |-> TrimSpace(r.query.name.v), text |-> TrimSpace(r.query.text.v)]

\* The values of the INSERT a voice submission issues.
SubmittedVoice(r) ==
    [name |-> TrimSpace(FieldValue(r.name)), note |-> TrimSpace(FieldValue(r.note)),
     audio |-> [size |-> ReadCapped(r.file.audio.size), magic |-> r.file.audio.magic],
     mime |-> ResolveMimeType(r.file.declared, r.file.audio),
     duration |-> Round(r.duration)]

InsertsText(r) ==
    r.route = "/message" \/ (r.route = "/graphql" /\ r.query.op = "submitMessage")

Inserts(r) == InsertsText(r) \/ r.route = "/voice-message"

PayloadShared(i) ==
    LET others == {j \in Slots : /\ j # i /\ inflight[j].pc \in {"acquire", "exec"}
                                 /\ Inserts(inflight[j].r)
                                 /\ InsertsText(inflight[j].r) = InsertsText(inflight[i].r)
                                 /\ inflight[j].r.route = inflight[i].r.route}
    IN  IF others = {} THEN inflight[i].r ELSE inflight[CHOOSE j \in others : TRUE].r

\* The payload a handler holds in its own local variables.
Payload(i) == inflight[i].r

Busy == {i \in Slots : inflight[i].pc = "exec"}

\* The handler of worker i returns: its reply is the last response served.
\* stored tells whether its INSERT took effect in the store.
Completes(i, reply, outcome, stored) ==
    /\ inflight' = [inflight EXCEPT ![i].pc = "done", ![i].resp = reply,
                                    ![i].outcome = outcome, ![i].stored = stored]
    /\ req' = inflight[i].r
    /\ resp' = reply
    /\ prev' = Snapshot

Receive(i, r) ==
    /\ inflight[i].pc = "idle"
    /\ ReachesStorage(r)
    /\ inflight' = [inflight EXCEPT ![i].pc = "acquire", ![i].r = r]
    /\ UNCHANGED <<store, now, config, startupWarning, req, resp, prev>>

\* pool.Exec, pool.Query, pool.QueryRow: a free connection is taken and the
\* statement is sent on it.
Acquire(i) ==
    /\ inflight[i].pc = "acquire"
    /\ Cardinality(Busy) < PoolSize
    /\ inflight' = [inflight EXCEPT ![i].pc = "exec",
                                    ![i].statements = inflight[i].statements + 1]
    /\ UNCHANGED <<store, now, config, startupWarning, req, resp, prev>>

\* The INSERT of worker i takes effect: one row, under the next id of its table.
Insert(i) ==
    IF InsertsText(inflight[i].r)
    THEN /\ messages' = Append(messages, MessageRow(SubmittedText(Payload(i)).name,
                                                    SubmittedText(Payload(i)).text))
         /\ nextMessageId' = nextMessageId + 1
         /\ UNCHANGED <<voice_messages, nextVoiceId>>
    ELSE /\ voice_messages' =
              Append(voice_messages,
                     VoiceRow(SubmittedVoice(Payload(i)).name,
                              SubmittedVoice(Payload(i)).note,
                              SubmittedVoice(Payload(i)).audio,
                              SubmittedVoice(Payload(i)).mime,
                              SubmittedVoice(Payload(i)).duration))
         /\ nextVoiceId' = nextVoiceId + 1
         /\ UNCHANGED <<messages, nextMessageId>>

\* The store answers the statement of worker i, which gives its connection back.
Answer(i) ==
    /\ inflight[i].pc = "exec"
    /\ UNCHANGED <<now, config, startupWarning>>
    /\ \E db \in DbOutcomes, tie \in TieOrders :
          LET r == inflight[i].r
          IN  IF db # "ok"
              THEN Completes(i, FailureReply(r), "failed", FALSE) /\ UNCHANGED store
              ELSE IF Inserts(r)
              THEN /\ Insert(i)
                   /\ Completes(i, IF r.route = "/graphql" THEN Reply(200, "true")
                                   ELSE Reply(201, "ok"), "ok", TRUE)
              ELSE /\ UNCHANGED store
                   /\ Completes(i,
                         CASE r.route = "/admin" ->
                                 ReplyRows(200, SelectMessages(flatFeedLimit, tie))
                           [] r.route = "/voice-messages" ->
                                 ReplyRows(200, SelectVoiceMessages(flatFeedLimit, tie))
                           [] r.route = "/voice-messages/" ->
                                 IF SelectAudio(RequestedId(r.path).v) # <<>>
                                 THEN ReplyAudio(SelectAudio(RequestedId(r.path).v)[1].audio,
                                                 SelectAudio(RequestedId(r.path).v)[1].mime_type)
                                 ELSE NotFound
                           [] r.query.op = "messages" ->
                                 ReplyRows(200, SelectMessages(EffectiveLimit(r.query.limit), tie))
                           [] OTHER ->
                                 ReplyVoiceNotes(200, SelectVoiceMessages(
                                                          EffectiveLimit(r.query.limit), tie)),
                         "ok", FALSE)

DeadlineRetry(i) ==
    /\ inflight[i].pc \in {"acquire", "exec"}
    /\ inflight' = [inflight EXCEPT ![i].pc = "acquire"]
    /\ UNCHANGED <<store, now, config, startupWarning, req, resp, prev>>

\* context.WithTimeout: the deadline passes while the handler waits for a
\* connection or for the answer; the call returns an error, the connection, if
\* one was held, goes back to the pool, and the handler answers as for any
\* storage error.  The statement itself is cancelled, or has already taken
\* effect when the cancellation reaches the store.
Deadline(i) ==
    /\ inflight[i].pc \in {"acquire", "exec"}
    /\ UNCHANGED <<now, config, startupWarning>>
    /\ \E stored \in BOOLEAN :
          /\ stored => (inflight[i].pc = "exec" /\ Inserts(inflight[i].r))
          /\ IF stored THEN Insert(i) ELSE UNCHANGED store
          /\ Completes(i, FailureReply(inflight[i].r), "timeout", stored)

PoolRequests ==
    {MessageRequest("POST", TRUE, Opt(PaddedName), Opt(PaddedText)),
     GraphQLRequest("POST", GoodAuth, TRUE,
                    SubmitMessage(Opt(Rep("e2", maxNameLength)), Opt(Rep("a", 1)))),
     VoiceBase,
     [VoiceBase EXCEPT !.file = File(1, "wave", <<>>), !.duration = Rational(302, 5)],
     FeedRequest("/admin", "GET", GoodAuth),
     GraphQLRequest("POST", GoodAuth, TRUE, ListQuery("voiceMessages", NoLimit)),
     AudioRequest("GET", GoodAuth, AudioPath(<<"1">>, AudioSuffix))}

ReceiveRequest == \E i \in Slots, r \in PoolRequests : Receive(i, r)

AcquireConnection == \E i \in Slots : Acquire(i)

StoreAnswers == \E i \in Slots : Answer(i)

DeadlinePasses == \E i \in Slots : Deadline(i)

NextPool ==
    \/ ReceiveRequest
    \/ AcquireConnection
    \/ StoreAnswers
    \/ DeadlinePasses

SpecPool == Init /\ [][NextPool]_vars

\* The timer of each context fires: a deadline that stays pending passes.
SpecPoolFair == SpecPool /\ \A i \in Slots : WF_vars(Deadline(i))

Next ==
    \/ PostMessage
    \/ PostVoiceMessage
    \/ PostGraphQLSubmit
    \/ PostGraphQLMessages
    \/ PostGraphQLVoiceMessages
    \/ PostGraphQLOther
    \/ GetAdmin
    \/ GetVoiceMessages
    \/ Tick

Spec == Init /\ [][Next]_vars

(***************************************************************************)
(* Properties.  What a string is after trimming is stated here on its own, *)
(* apart from the TrimSpace the handlers compute.                          *)
(***************************************************************************)
WhiteOnly(s) == \A i \in DOMAIN s : s[i].c \in White

NoOuterWhite(t) == t = <<>> \/ (t[1].c \notin White /\ t[Len(t)].c \notin White)

IsTrimOf(t, s) ==
    /\ NoOuterWhite(t)
    /\ \E i \in 0..Len(s), j \in 0..Len(s) :
          /\ i <= j
          /\ t = SubSeq(s, i + 1, j)
          /\ WhiteOnly(SubSeq(s, 1, i))
          /\ WhiteOnly(SubSeq(s, j + 1, Len(s)))

Trimmed(s) ==
    CHOOSE t \in {SubSeq(s, i + 1, j) : i \in 0..Len(s), j \in 0..Len(s)} : IsTrimOf(t, s)

MessagePost == req.route = "/message" /\ req.method = "POST" /\ req.wellFormed

SubmitMutation ==
    /\ req.route = "/graphql" /\ req.method = "POST" /\ req.wellFormed
    /\ req.query.op = "submitMessage"

GivenName == IF req.route = "/message" THEN FieldValue(req.name) ELSE FieldValue(req.query.name)

GivenText == IF req.route = "/message" THEN FieldValue(req.text) ELSE FieldValue(req.query.text)

ValidBody(text) == RuneLen(Trimmed(text)) >= 1 /\ RuneLen(Trimmed(text)) <= maxMessageLength

TextStoreUnchanged == messages = prev.messages

ClientError == resp.status >= 400 /\ resp.status <= 499

\* Exactly one new text row, holding the trimmed name and the trimmed body.
OneTextRowStored ==
    /\ Len(messages) = Len(prev.messages) + 1
    /\ SubSeq(messages, 1, Len(prev.messages)) = prev.messages
    /\ messages[Len(messages)].text = Trimmed(GivenText)
    /\ messages[Len(messages)].guest_name = Trimmed(GivenName)

C2_InvalidBodyRejected ==
    ((MessagePost \/ SubmitMutation) /\ ~ValidBody(GivenText))
    => (ClientError /\ TextStoreUnchanged)

\* A too-long body and a blank body were each refused while a row was stored.
C2_Witness ==
    /\ MessagePost /\ prev.messages # <<>>
    /\ RuneLen(Trimmed(GivenText)) > maxMessageLength
    /\ Trimmed(GivenName) = <<>>
    /\ resp.status = 400 /\ messages = prev.messages

\* C3, as stated: a POST /message whose name is absent or empty after trimming
\* and whose body is valid is accepted and stored with an empty guest name (the
\* request fits the body cap and the store does not fail).
C3_AsStated ==
    (/\ MessagePost
     /\ BodyBytes(req) <= maxBodyBytes
     /\ Trimmed(GivenName) = <<>>
     /\ ValidBody(GivenText)
     /\ resp.status # 500)
    => /\ resp.status = 201
       /\ Len(messages) = Len(prev.messages) + 1
       /\ messages[Len(messages)].guest_name = <<>>

\* C4: every stored text row has a body that is non-empty after trimming and at
\* most 500 characters long, whichever write path stored it.
C4_StoredBodiesBounded ==
    \A i \in DOMAIN messages :
        /\ Trimmed(messages[i].text) # <<>>
        /\ RuneLen(messages[i].text) <= maxMessageLength

\* Both write paths have stored a row, one of them 500 characters on more than
\* 500 bytes.
C4_Witness ==
    /\ Len(messages) = 2
    /\ SubmitMutation /\ resp.status = 200
    /\ \E i \in DOMAIN messages :
          RuneLen(messages[i].text) = maxMessageLength
          /\ ByteLen(messages[i].text) > maxMessageLength
    /\ Len(prev.messages) = 1

VoicePost == req.route = "/voice-message" /\ req.method = "POST" /\ req.wellFormed

WithinTransportCap == MultipartBytes(req) <= maxAudioBytes + multipartAllowance

ValidAudioSize ==
    req.file.present /\ req.file.audio.size >= 1 /\ req.file.audio.size <= maxAudioBytes

ValidVoiceName ==
    Trimmed(FieldValue(req.name)) # <<>>
    /\ RuneLen(Trimmed(FieldValue(req.name))) <= maxNameLength

ValidDuration ==
    /\ req.duration.kind = "num"
    /\ req.duration.den <= req.duration.num
    /\ req.duration.num <= maxAudioDurationSeconds * req.duration.den

ValidAudioType == SupportedAudioType(ResolveMimeType(req.file.declared, req.file.audio))

VoiceStoreUnchanged == voice_messages = prev.voice_messages

OneVoiceRowStored ==
    /\ Len(voice_messages) = Len(prev.voice_messages) + 1
    /\ SubSeq(voice_messages, 1, Len(prev.voice_messages)) = prev.voice_messages

LastVoice == voice_messages[Len(voice_messages)]

\* Rejected by validation: a 400 and no row.
VoiceRejected == resp.status = 400 /\ VoiceStoreUnchanged

\* Accepted by validation: created with one new row, or a 500 and no row when
\* the store fails the insert.
VoiceAccepted ==
    \/ (resp.status = 201 /\ OneVoiceRowStored)
    \/ (resp.status = 500 /\ VoiceStoreUnchanged)

\* C5, as stated: with otherwise valid audio, name and type, a duration d is
\* rejected if d <= 0 or d > 60 and accepted if 1 <= d <= 60.
C5_AsStated ==
    (/\ VoicePost /\ WithinTransportCap
     /\ ValidAudioSize /\ ValidAudioType /\ ValidVoiceName
     /\ req.duration.kind = "num")
    => /\ (req.duration.num <= 0
           \/ req.duration.num > maxAudioDurationSeconds * req.duration.den)
          => VoiceRejected
       /\ ValidDuration => VoiceAccepted

\* C5, amended: with otherwise valid audio, name and type, a duration d is
\* rejected if d <= 0 or d >= 60.5 and accepted if 1 <= d <= 60 (the duration
\* is rounded before the range check, so 60 < d < 60.5 is accepted as 60).
C5_DurationBounds ==
    (/\ VoicePost /\ WithinTransportCap
     /\ ValidAudioSize /\ ValidAudioType /\ ValidVoiceName
     /\ req.duration.kind = "num")
    => /\ (req.duration.num <= 0
           \/ 2 * req.duration.num >= (2 * maxAudioDurationSeconds + 1) * req.duration.den)
          => VoiceRejected
       /\ ValidDuration => VoiceAccepted

\* A 60.5-second clip with valid audio was refused for its duration.
C5_Witness ==
    /\ VoicePost /\ ValidAudioSize /\ ValidAudioType /\ ValidVoiceName
    /\ req.duration.kind = "num"
    /\ 2 * req.duration.num = (2 * maxAudioDurationSeconds + 1) * req.duration.den
    /\ resp.status = 400 /\ resp.body = "duration exceeds limit"

\* C6: an otherwise valid voice submission whose audio file is exactly the size
\* cap is accepted and stored in full; a file one byte over the cap is rejected
\* and leaves the voice store unchanged; so is an empty file.
C6_SizeCap ==
    /\ (/\ VoicePost /\ WithinTransportCap
        /\ req.file.present /\ req.file.audio.size = maxAudioBytes
        /\ ValidDuration /\ ValidAudioType /\ ValidVoiceName)
       => /\ VoiceAccepted
          /\ resp.status = 201 => LastVoice.audio = req.file.audio
    /\ (VoicePost /\ req.file.present /\ req.file.audio.size = maxAudioBytes + 1)
       => (ClientError /\ VoiceStoreUnchanged)
    /\ (VoicePost /\ req.file.present /\ req.file.audio.size = 0)
       => (ClientError /\ VoiceStoreUnchanged)

\* A file of exactly the cap was created and stored whole, after an earlier row.
C6_Witness ==
    /\ VoicePost /\ resp.status = 201
    /\ req.file.audio.size = maxAudioBytes
    /\ LastVoice.audio.size = maxAudioBytes
    /\ prev.voice_messages # <<>>

\* C7: every stored voice row has 1 <= durationSeconds <= 60 and an audio blob
\* that is non-empty and no larger than the size cap.
C7_StoredVoiceBounded ==
    \A i \in DOMAIN voice_messages :
        /\ voice_messages[i].duration_seconds >= 1
        /\ voice_messages[i].duration_seconds <= maxAudioDurationSeconds
        /\ voice_messages[i].audio.size >= 1
        /\ voice_messages[i].audio.size <= maxAudioBytes

\* Rows at both ends are stored: 60 seconds on a cap-sized blob, and 1 second.
C7_Witness ==
    /\ \E i \in DOMAIN voice_messages :
          /\ voice_messages[i].duration_seconds = maxAudioDurationSeconds
          /\ voice_messages[i].audio.size = maxAudioBytes
    /\ \E i \in DOMAIN voice_messages : voice_messages[i].duration_seconds = 1

IsAudioType(t) == HasPrefix(t, AudioPrefix) \/ Contains(t, WebmToken)

Generic(t) == t = <<>> \/ t = OctetStream

\* The outcome for a submission valid in all but its type, whose type resolves
\* to t: stored with type t, or refused as unsupported.
TypeOutcome(t) ==
    (/\ VoicePost /\ WithinTransportCap
     /\ ValidDuration /\ ValidAudioSize /\ ValidVoiceName)
    => IF IsAudioType(t)
       THEN VoiceAccepted /\ (resp.status = 201 => LastVoice.mime_type = t)
       ELSE VoiceRejected /\ resp.body = "unsupported audio type"

\* C8, as stated: the type is the declared type when one is declared, otherwise
\* the sniffed type, and the default audio/webm only when sniffing yields an
\* empty or generic type; a declared non-empty type is never replaced by the
\* default; the submission is rejected when the resolved type neither starts
\* with audio/ nor contains webm.
C8_AsStated ==
    req.route = "/voice-message" =>
        TypeOutcome(IF req.file.declared # <<>> THEN req.file.declared
                    ELSE IF Generic(DetectContentType(req.file.audio)) THEN AudioWebm
                    ELSE DetectContentType(req.file.audio))

\* C8, amended: the type is the declared type when one is declared, otherwise
\* the sniffed type, and the default audio/webm whenever the type so obtained is
\* empty or application/octet-stream, be it sniffed or declared; a declared
\* type other than application/octet-stream is never replaced by the default;
\* the submission is rejected when the resolved type neither starts with audio/
\* nor contains webm.
C8_MimeResolution ==
    req.route = "/voice-message" =>
        TypeOutcome(IF ~Generic(req.file.declared) THEN req.file.declared
                    ELSE IF req.file.declared = OctetStream THEN AudioWebm
                    ELSE IF Generic(DetectContentType(req.file.audio)) THEN AudioWebm
                    ELSE DetectContentType(req.file.audio))

\* A part declared application/octet-stream over WAVE bytes was stored as
\* audio/webm.
C8_Witness ==
    /\ VoicePost /\ resp.status = 201
    /\ req.file.declared = OctetStream
    /\ DetectContentType(req.file.audio) = AudioWave
    /\ LastVoice.mime_type = AudioWebm

ListQueryServed ==
    /\ req.route = "/graphql" /\ req.method = "POST"
    /\ req.query.op \in {"messages", "voiceMessages"}
    /\ resp.status = 200

FlatFeedServed ==
    /\ req.route \in {"/admin", "/voice-messages"} /\ req.method = "GET"
    /\ resp.status = 200

\* The table a served list operation reads.
ListedTable ==
    IF req.route = "/admin" \/ (req.route = "/graphql" /\ req.query.op = "messages")
    THEN messages ELSE voice_messages

Least(a, b) == IF a < b THEN a ELSE b

\* C9: a typed list query with requested limit l returns min(e, rows) rows,
\* where e is l when 0 < l <= 400 and 400 otherwise (absent, zero, negative,
\* over the ceiling); a flat feed returns min(200, rows) rows; so no list
\* operation returns more than 400 rows.
C9_LimitClamped ==
    /\ ListQueryServed =>
          Len(resp.rows) =
              Least(IF req.query.limit.kind = "int" /\ req.query.limit.v > 0
                       /\ req.query.limit.v <= 400
                    THEN req.query.limit.v ELSE 400,
                    Len(ListedTable))
    /\ FlatFeedServed => Len(resp.rows) = Least(200, Len(ListedTable))
    /\ Len(resp.rows) <= 400

\* A query asking for 401 rows of a table holding more than 400 got 400.
C9_Witness ==
    /\ ListQueryServed
    /\ req.query.limit.kind = "int" /\ req.query.limit.v = 401
    /\ Len(ListedTable) > 400
    /\ Len(resp.rows) = 400

\* C10: every list operation returns stored rows, each once, newest creation
\* time first, and no row it leaves out is newer than a row it returns.
C10_NewestFirst ==
    (ListQueryServed \/ FlatFeedServed) =>
        LET rows == resp.rows
            T == ListedTable
            ids == {rows[i].id : i \in DOMAIN rows}
            stored == {<<T[k].id, T[k].created_at>> : k \in DOMAIN T}
        IN  /\ \A i \in 1..(Len(rows) - 1) : rows[i].created_at >= rows[i + 1].created_at
            /\ Cardinality(ids) = Len(rows)
            /\ \A i \in DOMAIN rows : <<rows[i].id, rows[i].created_at>> \in stored
            /\ \A k \in DOMAIN T :
                  T[k].id \notin ids => T[k].created_at <= rows[Len(rows)].created_at

\* The flat voice feed returned 200 rows of differing age out of more than 200,
\* the newest stored row first.
C10_Witness ==
    /\ FlatFeedServed /\ req.route = "/voice-messages"
    /\ Len(resp.rows) = 200 /\ Len(voice_messages) > 200
    /\ resp.rows[1].created_at > resp.rows[200].created_at
    /\ \A k \in DOMAIN voice_messages :
          voice_messages[k].created_at <= resp.rows[1].created_at

\* A flat feed served in full (rq, rs: the request and its response).
FlatServed(rq, rs) ==
    rq.route \in {"/admin", "/voice-messages"} /\ rq.method = "GET" /\ rs.status = 200

\* The typed query of the same table as the flat feed fq, with limit 200, served.
TypedTwinServed(fq, rq, rs) ==
    /\ rq.route = "/graphql" /\ rq.method = "POST" /\ rs.status = 200
    /\ rq.query.op = (IF fq.route = "/admin" THEN "messages" ELSE "voiceMessages")
    /\ rq.query.limit = IntLimit(200)

\* C11, as stated: a flat feed and the typed query of the same table with limit
\* 200, served one right after the other over the same stored data, return the
\* same rows in the same order with the same field values, rows of equal
\* creation time included.
C11_AsStated ==
    [][(/\ messages' = messages /\ voice_messages' = voice_messages
        /\ \/ FlatServed(req, resp) /\ TypedTwinServed(req, req', resp')
           \/ FlatServed(req', resp') /\ TypedTwinServed(req', req, resp))
       => resp'.rows = resp.rows]_vars

Digits == {"0", "1", "2", "3", "4", "5", "6", "7", "8", "9"}

DigitOf(n) ==
    CASE n = 0 -> "0" [] n = 1 -> "1" [] n = 2 -> "2" [] n = 3 -> "3" [] n = 4 -> "4"
      [] n = 5 -> "5" [] n = 6 -> "6" [] n = 7 -> "7" [] n = 8 -> "8" [] n = 9 -> "9"

\* The decimal numeral of a natural number, without sign or leading zeros.
RECURSIVE Numeral(_)
Numeral(n) == IF n < 10 THEN <<DigitOf(n)>> ELSE Numeral(n \div 10) \o <<DigitOf(n % 10)>>

Authorised ==
    adminUser = "" \/ adminPass = "" \/ req.auth = BasicAuth(adminUser, adminPass)

AudioFetch == req.route = "/voice-messages/" /\ req.method = "GET" /\ Authorised

\* The ids the path of the request names in canonical form: /voice-messages/<n>/audio.
NamedIds == {n \in 1..99 : req.path = VoiceMessagesPrefix \o Numeral(n) \o AudioSuffix}

VoiceRowsWithId(n) == {i \in DOMAIN voice_messages : voice_messages[i].id = n}

NotFoundOutcome ==
    [status |-> 404, body |-> "404 page not found", rows |-> <<>>, wwwAuth |-> FALSE]

\* C12, as stated: an audio fetch for an id with no stored voice row returns the
\* not-found outcome; an audio fetch for the id of a stored voice row returns
\* exactly the stored bytes with the stored MIME type of that row as content type.
C12_AsStated ==
    AudioFetch =>
        \A n \in NamedIds :
            IF VoiceRowsWithId(n) = {} THEN resp = NotFoundOutcome
            ELSE \A i \in VoiceRowsWithId(n) :
                    /\ resp.status = 200
                    /\ resp.audio = voice_messages[i].audio
                    /\ resp.contentType = voice_messages[i].mime_type

\* What lies between /voice-messages/ and /audio in the path of the request.
HasAudioShape ==
    /\ Len(req.path) >= Len(VoiceMessagesPrefix) + Len(AudioSuffix)
    /\ SubSeq(req.path, 1, Len(VoiceMessagesPrefix)) = VoiceMessagesPrefix
    /\ SubSeq(req.path, Len(req.path) - Len(AudioSuffix) + 1, Len(req.path)) = AudioSuffix

IdPart == SubSeq(req.path, Len(VoiceMessagesPrefix) + 1, Len(req.path) - Len(AudioSuffix))

AllDigits(s) == s # <<>> /\ \A i \in DOMAIN s : s[i] \in Digits

Numeric(s) == AllDigits(s) \/ (s # <<>> /\ s[1] \in {"+", "-"} /\ AllDigits(Tail(s)))

AllZero(s) == s # <<>> /\ \A i \in DOMAIN s : s[i] = "0"

\* Malformed: no /audio suffix, or an id that is non-numeric, zero or negative.
MalformedId ==
    \/ ~HasAudioShape
    \/ ~Numeric(IdPart)
    \/ AllZero(IdPart) \/ (IdPart[1] \in {"+", "-"} /\ AllZero(Tail(IdPart)))
    \/ IdPart[1] = "-"

\* C13: for an authorised caller, an audio fetch with a malformed identifier
\* (non-numeric, zero, negative, or no /audio suffix) gets exactly the outcome
\* of a fetch for a well-formed id that matches no row: one and the same
\* not-found response.
C13_BadIdLooksAbsent ==
    AudioFetch =>
        /\ MalformedId => resp = NotFoundOutcome
        /\ \A n \in NamedIds : VoiceRowsWithId(n) = {} => resp = NotFoundOutcome

\* A negative id was refused as not found while the row of that magnitude is
\* stored.
C13_Witness ==
    /\ AudioFetch /\ HasAudioShape /\ IdPart = <<"-", "1">>
    /\ VoiceRowsWithId(1) # {}
    /\ resp = NotFoundOutcome

\* C18, as stated: not-found is returned only when no row with that id exists:
\* an audio fetch for the id of a stored row is served, or fails with an
\* internal error (server-error status) when the lookup itself fails.
C18_AsStated ==
    AudioFetch =>
        \A n \in NamedIds :
            VoiceRowsWithId(n) # {} => (resp.status = 200 \/ resp.status >= 500)

GatedRoutes == {"/admin", "/voice-messages", "/voice-messages/", "/graphql"}

PublicRoutes == {"/message", "/voice-message"}

Configured == adminUser # "" /\ adminPass # ""

Unconfigured == adminUser = "" /\ adminPass = ""

CredentialMatches ==
    req.auth.ok /\ req.auth.user = adminUser /\ req.auth.pass = adminPass

AuthenticationRequired ==
    resp.status = 401 /\ resp.body = "unauthorized" /\ resp.wwwAuth

\* The request uses the method its route serves.
ServedMethod == req.method = (IF req.route = "/graphql" THEN "POST" ELSE "GET")

\* What the handler behind the gate answers to a request in the served method.
PassedThrough ==
    /\ ~resp.wwwAuth
    /\ resp.status \in (CASE req.route \in {"/admin", "/voice-messages"} -> {200, 500}
                          [] req.route = "/voice-messages/" -> {200, 404}
                          [] req.route = "/graphql" -> {200, 400})

\* C14: with no credential configured, every gated route (in the method it
\* serves) answers as its handler does without any credential header; with a
\* credential configured it answers 401 with the realm hint when the header is
\* absent or the username or the password differs, and as its handler does
\* when both match exactly.
C14_GateMatrix ==
    (req.route \in GatedRoutes /\ ServedMethod) =>
        /\ Unconfigured => PassedThrough
        /\ (Configured /\ ~CredentialMatches) => AuthenticationRequired
        /\ (Configured /\ CredentialMatches) => PassedThrough

\* With a credential configured, a feed was refused for a wrong password alone
\* while rows were stored.
C14_Witness ==
    /\ Configured /\ req.route = "/admin" /\ req.method = "GET"
    /\ req.auth.ok /\ req.auth.user = adminUser /\ req.auth.pass # adminPass
    /\ messages # <<>>
    /\ AuthenticationRequired /\ resp.rows = <<>>

\* C15, as stated: on every gated route, with a credential configured, a
\* request without valid credentials gets the authentication-required outcome,
\* whatever its method, path or body.
C15_AsStated ==
    (req.route \in GatedRoutes /\ Configured /\ ~CredentialMatches)
    => AuthenticationRequired

ValidTextSubmission ==
    /\ BodyBytes(req) <= maxBodyBytes
    /\ Trimmed(GivenName) # <<>> /\ RuneLen(Trimmed(GivenName)) <= maxNameLength
    /\ ValidBody(GivenText)

ValidVoiceSubmission ==
    /\ WithinTransportCap
    /\ ValidDuration /\ ValidAudioSize /\ ValidAudioType /\ ValidVoiceName

InvalidVoiceSubmission ==
    \/ ~req.file.present
    \/ ~ValidAudioSize
    \/ ~ValidVoiceName
    \/ req.duration.kind # "num"
    \/ req.duration.num <= 0
    \/ 2 * req.duration.num >= (2 * maxAudioDurationSeconds + 1) * req.duration.den
    \/ ~ValidAudioType

\* C16: with a credential configured, the public submission routes never
\* answer authentication-required: a valid submission sent without any
\* credential header passes validation and is stored (201, or 500 and no row
\* when the store fails the insert), and an invalid one is rejected with a 400
\* and no row.
C16_PublicRoutesOpen ==
    (Configured /\ req.route \in PublicRoutes) =>
        /\ ~AuthenticationRequired /\ resp.status # 401 /\ ~resp.wwwAuth
        /\ MessagePost =>
              IF ValidTextSubmission
              THEN \/ (resp.status = 201 /\ OneTextRowStored)
                   \/ (resp.status = 500 /\ TextStoreUnchanged)
              ELSE resp.status = 400 /\ TextStoreUnchanged
        /\ (VoicePost /\ ValidVoiceSubmission) => VoiceAccepted
        /\ (VoicePost /\ InvalidVoiceSubmission) => VoiceRejected

\* With a credential configured, a text note and a voice note are both stored,
\* the last one by a submission carrying no credential.
C16_Witness ==
    /\ Configured /\ VoicePost /\ resp.status = 201
    /\ messages # <<>> /\ voice_messages # <<>>
    /\ prev.voice_messages = <<>>

GenericFailures ==
    {"failed to store message", "failed to store voice message",
     "failed to fetch messages", "failed to fetch voice messages",
     "failed to read messages", "failed to read voice messages"}

\* A storage failure reported as the claim requires.
ReportedAsInternal == resp.status >= 500 /\ resp.body \in GenericFailures

\* A request that passes the gate and every validation, so that only the
\* store can make it fail.
OnlyStoreCanFail ==
    \/ (MessagePost /\ ValidTextSubmission)
    \/ (VoicePost /\ ValidVoiceSubmission)
    \/ (req.route \in {"/admin", "/voice-messages"} /\ req.method = "GET" /\ Authorised)
    \/ (/\ req.route = "/graphql" /\ req.method = "POST" /\ Authorised /\ req.wellFormed
        /\ \/ (req.query.op \in {"messages", "voiceMessages"}
               /\ req.query.limit.kind \in {"absent", "int"})
           \/ (/\ req.query.op = "submitMessage"
               /\ req.query.name.present /\ req.query.text.present
               /\ Trimmed(GivenName) # <<>> /\ RuneLen(Trimmed(GivenName)) <= maxNameLength
               /\ ValidBody(GivenText)))

\* C19, as stated: on every route, the typed endpoint included, a storage
\* failure is reported at server-error severity with a generic message that
\* carries no storage detail, and a validation rejection at client-error
\* severity: a request only the store can fail succeeds or gets a generic
\* server error, no response carries storage detail, and an invalid text
\* submission on either write path gets a client error.
C19_AsStated ==
    /\ OnlyStoreCanFail => (resp.status \in {200, 201} \/ ReportedAsInternal)
    /\ resp.body # StorageErrorDetail
    /\ ((MessagePost \/ (SubmitMutation /\ Authorised)) /\ ~ValidBody(GivenText))
       => ClientError

\* A POST /message carrying a name and a text (rq: the request).
NamedMessagePost(rq) ==
    /\ rq.route = "/message" /\ rq.method = "POST" /\ rq.wellFormed
    /\ rq.name.present /\ rq.text.present

\* A submitMessage mutation carrying a name and a text, with valid credentials.
NamedMutation(rq) ==
    /\ rq.route = "/graphql" /\ rq.method = "POST" /\ rq.wellFormed
    /\ rq.query.op = "submitMessage" /\ rq.query.name.present /\ rq.query.text.present
    /\ (adminUser = "" \/ adminPass = "" \/ rq.auth = [ok |-> TRUE, user |-> adminUser, pass |-> adminPass])

\* The same (name, text) on both write paths: p to POST /message, m to the mutation.
SamePair(p, m) ==
    /\ NamedMessagePost(p) /\ NamedMutation(m)
    /\ p.name.v = m.query.name.v /\ p.text.v = m.query.text.v

\* What validation decided, read off the response: "accepted" when the request
\* went on to the store (stored, or the store failed the insert), the reason of
\* the rejection otherwise.
Decision(rs) ==
    IF rs.status \in {200, 201, 500} \/ rs.body = "pgx: storage error detail"
    THEN "accepted" ELSE rs.body

Stored(rs) == rs.status \in {200, 201}

\* Both requests of the step agree: the same decision, and the same name and
\* body in the rows they stored.
Agree ==
    /\ Decision(resp) = Decision(resp')
    /\ (Stored(resp) /\ Stored(resp')) =>
          /\ messages'[Len(messages')].text = messages[Len(messages)].text
          /\ messages'[Len(messages')].guest_name = messages[Len(messages)].guest_name

\* C17, as stated: for every pair (name, text), POST /message and the
\* submitMessage mutation (with valid credentials), one right after the other,
\* both accept or both reject with the same reason, and store the same trimmed
\* name and body when they accept.
C17_AsStated ==
    [][(SamePair(req, req') \/ SamePair(req', req)) => Agree]_vars

\* C17, amended: the same, for every pair (name, text) whose POST /message
\* request body fits the 16 KiB body cap (the typed endpoint reads its body
\* without a cap).
C17_SameValidation ==
    [][(/\ SamePair(req, req') \/ SamePair(req', req)
        /\ 21 + ByteLen(GivenName) + ByteLen(GivenText) <= maxBodyBytes)
       => Agree]_vars

\* The mutation stored a padded body, trimmed, next to a first row of the same
\* name and body.
C17_Witness ==
    /\ SubmitMutation /\ resp.status = 200
    /\ Len(messages) = 2 /\ Len(prev.messages) = 1
    /\ GivenText # Trimmed(GivenText)
    /\ messages[2].text = messages[1].text
    /\ messages[2].guest_name = messages[1].guest_name

StoreInsert == req.route = "store"

\* The row of the insert breaks a bound of the data model.
OutOfBounds ==
    IF req.table = "messages" THEN RuneLen(req.text) > 500
    ELSE \/ req.duration_seconds < 1 \/ req.duration_seconds > 60
         \/ req.audio.size > maxAudioBytes

\* C20, as stated: an insert that goes past the pipeline with a duration
\* outside 1..60, an audio blob larger than the size cap or a text body longer
\* than 500 characters is refused by the store and leaves the tables unchanged.
C20_AsStated ==
    (StoreInsert /\ OutOfBounds) =>
        /\ resp.body = "violates check constraint"
        /\ messages = prev.messages /\ voice_messages = prev.voice_messages

IsPrefix(s, t) == Len(s) <= Len(t) /\ SubSeq(t, 1, Len(s)) = s

RowsAdded ==
    (Len(messages) - Len(prev.messages)) + (Len(voice_messages) - Len(prev.voice_messages))

\* A request that only reads: a flat feed, an audio fetch, or a typed request
\* other than the mutation.
ReadOperation ==
    \/ req.route \in {"/admin", "/voice-messages", "/voice-messages/"}
    \/ (req.route = "/graphql" /\ req.query.op # "submitMessage")

BothTablesUnchanged == messages = prev.messages /\ voice_messages = prev.voice_messages

OpenConfiguration == adminUser = "" \/ adminPass = ""

\* C28: with the username or the password empty (one of them or both), no
\* gated route checks a credential: no request gets the authentication-required
\* outcome and a request in the served method is answered by the handler, with
\* or without an Authorization header; the startup warning was logged in
\* exactly those configurations.
C28_OpenWhenHalfConfigured ==
    /\ (OpenConfiguration /\ req.route \in GatedRoutes) =>
          /\ ~AuthenticationRequired /\ resp.status # 401 /\ ~resp.wwwAuth
          /\ ServedMethod => PassedThrough
    /\ startupWarning <=> OpenConfiguration

\* With only the username configured, the flat feed served stored rows to a
\* request carrying no credential, and the warning had been logged.
C28_Witness ==
    /\ adminUser # "" /\ adminPass = ""
    /\ req.route = "/admin" /\ req.method = "GET" /\ ~req.auth.ok
    /\ resp.status = 200 /\ resp.rows # <<>>
    /\ startupWarning

GivenNote == FieldValue(req.note)

\* The note of the last stored voice row as the flat voice feed reads it back.
NoteReadBack(tie) ==
    LET rows == SelectVoiceMessages(flatFeedLimit, tie)
    IN  {rows[k].note : k \in {j \in DOMAIN rows : rows[j].id = LastVoice.id}}

Nearest(d) ==
    LET n == IF d.num >= 0 THEN d.num ELSE -d.num
        k == CHOOSE j \in 0..(n \div d.den + 1) :
                (2 * j - 1) * d.den <= 2 * n /\ 2 * n < (2 * j + 1) * d.den
    IN  IF d.num >= 0 THEN k ELSE -k

DurationStoredAs(k) == VoiceAccepted /\ (resp.status = 201 => LastVoice.duration_seconds = k)

DurationRejected == VoiceRejected /\ resp.body = "duration exceeds limit"

\* C29: the duration is rounded to the nearest integer second, halves away
\* from zero, before the range check: with the other fields valid, the
\* submission is accepted exactly when the rounded value is in 1..60, and the
\* rounded value is what is stored; so a duration in [0.5, 1) is stored as 1,
\* one in (0, 0.5) is rejected and one in (60, 60.5) is stored as 60.
C29_RoundedBeforeRangeCheck ==
    (/\ VoicePost /\ WithinTransportCap
     /\ ValidAudioSize /\ ValidAudioType /\ ValidVoiceName
     /\ req.duration.kind = "num")
    => LET num == req.duration.num
           den == req.duration.den
       IN  /\ IF 1 <= Nearest(req.duration) /\ Nearest(req.duration) <= 60
              THEN DurationStoredAs(Nearest(req.duration))
              ELSE DurationRejected
           /\ (den <= 2 * num /\ num < den) => DurationStoredAs(1)
           /\ (0 < num /\ 2 * num < den) => DurationRejected
           /\ (60 * den < num /\ 2 * num < 121 * den) => DurationStoredAs(60)

\* Half a second was stored as 1 second next to a 60.4-second clip stored as 60.
C29_Witness ==
    /\ VoicePost /\ resp.status = 201
    /\ 2 * req.duration.num = req.duration.den
    /\ LastVoice.duration_seconds = 1
    /\ \E i \in DOMAIN prev.voice_messages : prev.voice_messages[i].duration_seconds = 60

\* C25, as stated: once a POST /message has returned the created status, a
\* flat text feed served next with valid credentials, no other row having been
\* stored in between, contains the submitted note, as its first entry.
C25_AsStated ==
    [][(/\ req.route = "/message" /\ req.method = "POST" /\ resp.status = 201
        /\ req'.route = "/admin" /\ req'.method = "GET" /\ resp'.status = 200
        /\ messages' = messages)
       => /\ \E k \in DOMAIN resp'.rows : resp'.rows[k] = messages[Len(messages)]
          /\ resp'.rows[1] = messages[Len(messages)]]_vars

TypedVoiceListServed ==
    /\ req.route = "/graphql" /\ req.method = "POST"
    /\ req.query.op = "voiceMessages" /\ resp.status = 200

\* /voice-messages/<id>/audio, the id in decimal without sign or leading zeros.
CanonicalAudioPath(id) == VoiceMessagesPrefix \o Numeral(id) \o AudioSuffix

\* C24: every voice note of a typed list carries as audioUrl the path
\* /voice-messages/<id>/audio of its own id; for every stored voice note the id
\* the audio endpoint takes from that path is the note's id; and a fetch of the
\* path returns that note's audio under that note's MIME type (or, when the
\* lookup fails, the reply of a failed lookup).
C24_AudioUrlRoundTrip ==
    /\ TypedVoiceListServed =>
          /\ DOMAIN resp.audioUrl = DOMAIN resp.rows
          /\ \A k \in DOMAIN resp.rows : resp.audioUrl[k] = CanonicalAudioPath(resp.rows[k].id)
    /\ \A i \in DOMAIN voice_messages :
          RequestedId(AudioUrl(voice_messages[i])) = [ok |-> TRUE, v |-> voice_messages[i].id]
    /\ AudioFetch =>
          \A i \in DOMAIN voice_messages :
              req.path = CanonicalAudioPath(voice_messages[i].id) =>
                  \/ resp = NotFoundOutcome
                  \/ /\ resp.status = 200
                     /\ resp.audio = voice_messages[i].audio
                     /\ resp.contentType = voice_messages[i].mime_type

\* The audioUrl of a note with a two-digit id was fetched and that note's
\* audio was served, among notes holding other audio.
C24_Witness ==
    /\ AudioFetch /\ resp.status = 200
    /\ \E i \in DOMAIN voice_messages :
          /\ voice_messages[i].id >= 10
          /\ req.path = CanonicalAudioPath(voice_messages[i].id)
          /\ resp.audio = voice_messages[i].audio
          /\ \E j \in DOMAIN voice_messages : voice_messages[j].audio # resp.audio

\* The workers whose request was a submission on route set R and whose
\* storage call succeeded.
Succeeded(R) ==
    {i \in Slots : /\ inflight[i].pc = "done" /\ inflight[i].outcome = "ok"
                   /\ inflight[i].r.route \in R
                   /\ inflight[i].r.route = "/graphql" => inflight[i].r.query.op = "submitMessage"}

\* The workers whose request was a submission on route set R and whose INSERT
\* took effect in the store, answered or cut off by the deadline.
TookEffect(R) ==
    {i \in Slots : /\ inflight[i].pc = "done" /\ inflight[i].stored
                   /\ inflight[i].r.route \in R}

\* The workers that have sent an INSERT, and those whose INSERT did not succeed.
Submitting ==
    {i \in Slots : /\ inflight[i].r.route \in {"/message", "/voice-message", "/graphql"}
                   /\ inflight[i].r.route = "/graphql" => inflight[i].r.query.op = "submitMessage"}

Unsuccessful == {i \in Submitting : inflight[i].outcome \in {"failed", "timeout"}}

ExpectedText(r) ==
    IF r.route = "/message"
    THEN [guest_name |-> Trimmed(FieldValue(r.name)), text |-> Trimmed(FieldValue(r.text))]
    ELSE [guest_name |-> Trimmed(FieldValue(r.query.name)),
          text |-> Trimmed(FieldValue(r.query.text))]

StoredText(row) == [guest_name |-> row.guest_name, text |-> row.text]

ExpectedVoice(r) ==
    [guest_name |-> Trimmed(FieldValue(r.name)), audio |-> r.file.audio,
     duration_seconds |-> Nearest(r.duration)]

StoredVoice(row) ==
    [guest_name |-> row.guest_name, audio |-> row.audio,
     duration_seconds |-> row.duration_seconds]

DistinctIds(table) ==
    \A j, k \in DOMAIN table : j < k => table[j].id < table[k].id

\* C27: submissions served side by side are independent.  In every
\* interleaving, the rows stored are exactly the submissions whose INSERT
\* took effect: as many rows as such submissions, each value stored as many times
\* as it was submitted (no row lost, merged or duplicated), every row under an
\* id of its own, and every id below the next value of its sequence, so that
\* no id is given twice.
C27_IndependentSubmissions ==
    LET texts == TookEffect({"/message", "/graphql"})
        voices == TookEffect({"/voice-message"})
    IN  /\ Len(messages) = Cardinality(texts)
        /\ Len(voice_messages) = Cardinality(voices)
        /\ \A i \in texts :
              Cardinality({k \in DOMAIN messages :
                              StoredText(messages[k]) = ExpectedText(inflight[i].r)})
              = Cardinality({j \in texts :
                                ExpectedText(inflight[j].r) = ExpectedText(inflight[i].r)})
        /\ \A i \in voices :
              Cardinality({k \in DOMAIN voice_messages :
                              StoredVoice(voice_messages[k]) = ExpectedVoice(inflight[i].r)})
              = Cardinality({j \in voices :
                                ExpectedVoice(inflight[j].r) = ExpectedVoice(inflight[i].r)})
        /\ DistinctIds(messages) /\ DistinctIds(voice_messages)
        /\ \A k \in DOMAIN messages : messages[k].id < nextMessageId
        /\ \A k \in DOMAIN voice_messages : voice_messages[k].id < nextVoiceId

\* Two text submissions of different values, in flight at the same time, are
\* both stored, the one received second first.
C27_Witness ==
    /\ Len(messages) = 2
    /\ messages[1].text # messages[2].text
    /\ \E i, j \in Succeeded({"/message", "/graphql"}) :
          /\ i < j
          /\ StoredText(messages[1]) = ExpectedText(inflight[j].r)
          /\ StoredText(messages[2]) = ExpectedText(inflight[i].r)

ReachedStorage(i) == inflight[i].pc \in {"acquire", "exec"}

Completed(i) == inflight[i].pc = "done"

\* Every request that has reached its storage call gets its response.
EveryStorageCallCompletes == \A i \in Slots : ReachedStorage(i) ~> Completed(i)

\* A request whose storage call timed out was answered with an internal error.
TimedOutIsInternalError ==
    \A i \in Slots :
        (Completed(i) /\ inflight[i].outcome = "timeout") =>
            /\ inflight[i].resp.status >= 500
            /\ inflight[i].resp.body \in GenericFailures

\* C23, as stated: every request that reaches a storage call eventually
\* completes with a response, whatever the other requests do and however long
\* the pool stays exhausted or the store silent; and when its storage timeout
\* elapses it ends with an internal-error outcome.
C23_AsStated == EveryStorageCallCompletes /\ []TimedOutIsInternalError

====
